---- MODULE Spec2Model ----
(***************************************************************************)
(* Model of the pipeline/stage composition patterns of edx-gomatic:        *)
(* patterns/apros.py (deployment pipelines for a service),                 *)
(* patterns/stages.py (stage builders), patterns/edxapp.py and the         *)
(* cd_programs_multistage installer.  The configuration tree owned by the  *)
(* gomatic library is modelled as nested records and sequences.            *)
(***************************************************************************)
EXTENDS Naturals, Sequences, FiniteSets, TLC

VARIABLES
    group,      \* the pipelines of the pipeline group, in document order
    perms,      \* the (role, permission) grants of the pipeline group
    pc,         \* position of the running builder, or its raised error
    args,       \* arguments of generate_service_deployment_pipelines
    locals,     \* play, cd_pipeline_name, manual_pipeline_name, env_order
    calls,      \* job-builder invocations, in call order
    group0,     \* the group when the running builder was entered
    first,      \* the group when the first run of the builder returned
    runs,       \* completed runs of the builder with the same arguments
    last,       \* the stage-builder call applied last (stage-builder runs)
    configurator, \* name of the group being built and the other groups
    uploads     \* the configurations handed to save_updated_config, in call order

vars ==
    <<group, perms, pc, args, locals, calls, group0, first, runs, last, configurator,
      uploads>>

-----------------------------------------------------------------------------
(* Bounds *)

MaxEdps == 3        \* EDPs handed to the builder in one call, both lists together
MaxStageCalls == 2  \* stage-builder (or task-builder) calls applied to one pipeline

None == "None"

-----------------------------------------------------------------------------
(* Values: EDP, ArtifactLocation, materials, tasks *)

EDP(environment, deployment, play) ==
    [environment |-> environment, deployment |-> deployment, play |-> play]

STAGE_MCKA_EDXAPP == EDP("stage", "mckinsey", "edxapp")
STAGE_MCKA_APROS == EDP("stage", "mckinsey", "apros")
PROD_MCKA_EDXAPP == EDP("prod", "mckinsey", "edxapp")
PROD_MCKA_APROS == EDP("prod", "mckinsey", "apros")
MCKA_SUBAPPS == <<"cms", "lms", "apros">>

EDPS == {STAGE_MCKA_EDXAPP, STAGE_MCKA_APROS, PROD_MCKA_EDXAPP, PROD_MCKA_APROS}

ArtifactLocation(pipeline, stage, job, file_name, is_dir) ==
    [pipeline |-> pipeline, stage |-> stage, job |-> job,
     file_name |-> file_name, is_dir |-> is_dir]

NoLocation == ArtifactLocation(None, None, None, None, FALSE)

GitMaterial(name) == [kind |-> "git", name |-> name, pipeline |-> None, stage |-> None]

PipelineMaterial(pipeline_name, stage_name, material_name) ==
    [kind |-> "pipeline", name |-> material_name,
     pipeline |-> pipeline_name, stage |-> stage_name]

ExecTask(command, working_dir, runif) ==
    [type |-> "exec", command |-> command, working_dir |-> working_dir,
     runif |-> runif, src |-> NoLocation]

FetchArtifactTask(pipeline, stage, job, src, dest) ==
    [type |-> "fetch", command |-> <<>>, working_dir |-> dest,
     runif |-> "passed", src |-> ArtifactLocation(pipeline, stage, job, src, FALSE)]

-----------------------------------------------------------------------------
(* Names of edxpipelines.constants used by the builders *)

BUILD_AMI_STAGE_NAME == "build_ami"
DEPLOY_AMI_STAGE_NAME == "deploy_ami"
ROLLBACK_ASGS_STAGE_NAME == "rollback_asgs"
ROLLBACK_MIGRATIONS_STAGE_NAME == "rollback_migrations"
ARMED_STAGE_NAME == "armed_stage"
ARMED_JOB_NAME == "armed_job"
DEPLOY_AMI_JOB_NAME == "deploy_ami_job"
ROLLBACK_ASGS_JOB_NAME == "rollback_asgs_job"
LAUNCH_INSTANCE_STAGE_NAME == "launch_instance"
LAUNCH_INSTANCE_JOB_NAME == "launch_instance_job"
RUN_PLAY_STAGE_NAME == "run_play"
RUN_PLAY_JOB_NAME == "run_play_job"
BUILD_AMI_JOB_NAME == "build_ami_job"
TERMINATE_INSTANCE_STAGE_NAME == "terminate_instance"
TERMINATE_INSTANCE_JOB_NAME == "terminate_instance_job"
ARTIFACT_PATH == "target"
BUILD_AMI_FILENAME == "ami.yml"
DEPLOY_AMI_OUT_FILENAME == "ami_deploy_info.yml"
ROLLBACK_AMI_OUT_FILENAME == "rollback_info.yml"
MIGRATION_OUTPUT_DIR_NAME == "migrations"

ENVIRONMENT_PIPELINE_NAME_TPL(environment, play) == environment \o "-" \o play

EdpSuffix(edp) == edp.environment \o "-" \o edp.deployment \o "-" \o edp.play
BUILD_AMI_JOB_NAME_TPL(edp) == "build_ami_job-" \o EdpSuffix(edp)
DEPLOY_AMI_JOB_NAME_TPL(edp) == "deploy_ami_job-" \o EdpSuffix(edp)

DEPLOYMENT_PIPELINE_LABEL_TPL(app_material) == "${" \o app_material.name \o "[:7]}"

-----------------------------------------------------------------------------
(* The configuration tree and the gomatic operations the builders call *)

NewPipeline(name) ==
    [name |-> name, label |-> None, materials |-> <<>>, stages |-> <<>>,
     variables |-> {}, encrypted |-> {}]

NewStage(name) == [name |-> name, manual |-> FALSE, jobs |-> <<>>]

NewJob(name) ==
    [name |-> name, tasks |-> <<>>, artifacts |-> {}, variables |-> {}, secure |-> {}]

HasName(seq, name) == \E i \in 1..Len(seq) : seq[i].name = name

IndexOf(seq, name) == CHOOSE i \in 1..Len(seq) : seq[i].name = name

Range(seq) == {seq[i] : i \in 1..Len(seq)}

\* PipelineGroup.ensure_replacement_of_pipeline: find or append the pipeline
\* of that name, then empty it (children and label template removed).
ensure_replacement_of_pipeline(g, name) ==
    IF HasName(g, name)
    THEN [g EXCEPT ![IndexOf(g, name)] = NewPipeline(name)]
    ELSE Append(g, NewPipeline(name))

\* Pipeline.ensure_stage: the stage of that name, appended when absent.
ensure_stage(p, name) ==
    IF HasName(p.stages, name) THEN p
    ELSE [p EXCEPT !.stages = Append(@, NewStage(name))]

\* Stage.set_has_manual_approval
set_has_manual_approval(p, stage) ==
    [p EXCEPT !.stages[IndexOf(p.stages, stage)].manual = TRUE]

\* Pipeline.set_label_template
set_label_template(p, label) == [p EXCEPT !.label = label]

\* Pipeline.ensure_material: appended unless an equal material is present.
ensure_material(p, material) ==
    IF material \in Range(p.materials) THEN p
    ELSE [p EXCEPT !.materials = Append(@, material)]

\* Stage.ensure_job: the job of that name, appended when absent.
ensure_job(p, stage, job) ==
    LET s == IndexOf(p.stages, stage) IN
    IF HasName(p.stages[s].jobs, job) THEN p
    ELSE [p EXCEPT !.stages[s].jobs = Append(@, NewJob(job))]

\* Job.add_task: always appends.
add_task(p, stage, job, task) ==
    LET s == IndexOf(p.stages, stage)
        j == IndexOf(p.stages[s].jobs, job) IN
    [p EXCEPT !.stages[s].jobs[j].tasks = Append(@, task)]

\* Job.add_task called for each task of the sequence, in order
add_tasks(p, stage, job, tasks) ==
    LET s == IndexOf(p.stages, stage)
        j == IndexOf(p.stages[s].jobs, job) IN
    [p EXCEPT !.stages[s].jobs[j].tasks = @ \o tasks]

\* Job.ensure_task: appends the task unless an equal task is in the job.
ensure_task(p, stage, job, task) ==
    LET s == IndexOf(p.stages, stage)
        j == IndexOf(p.stages[s].jobs, job) IN
    IF task \in Range(p.stages[s].jobs[j].tasks) THEN p
    ELSE [p EXCEPT !.stages[s].jobs[j].tasks = Append(@, task)]

\* Job.ensure_environment_variables (the names of the variables)
ensure_job_environment_variables(p, stage, job, names) ==
    LET s == IndexOf(p.stages, stage)
        j == IndexOf(p.stages[s].jobs, job) IN
    [p EXCEPT !.stages[s].jobs[j].variables = @ \cup names]

\* ensure_unencrypted_secure_environment_variables of the job
ensure_job_unencrypted_secure_environment_variables(p, stage, job, names) ==
    LET s == IndexOf(p.stages, stage)
        j == IndexOf(p.stages[s].jobs, job) IN
    [p EXCEPT !.stages[s].jobs[j].secure = @ \cup names]

\* Pipeline.ensure_environment_variables (the names of the variables)
ensure_environment_variables(p, names) == [p EXCEPT !.variables = @ \cup names]

\* Pipeline.ensure_encrypted_environment_variables
ensure_encrypted_environment_variables(p, names) == [p EXCEPT !.encrypted = @ \cup names]

\* Job.ensure_artifacts: set union with the artifacts declared already.
ensure_artifacts(p, stage, job, artifacts) ==
    LET s == IndexOf(p.stages, stage)
        j == IndexOf(p.stages[s].jobs, job) IN
    [p EXCEPT !.stages[s].jobs[j].artifacts = @ \cup artifacts]

PipelineOf(g, name) == g[IndexOf(g, name)]

SetPipeline(g, p) == [g EXCEPT ![IndexOf(g, p.name)] = p]

StageOf(p, name) == p.stages[IndexOf(p.stages, name)]

StageNames(p) == [i \in 1..Len(p.stages) |-> p.stages[i].name]

-----------------------------------------------------------------------------
(* patterns/tasks: each task builder adds one task to the job it is given *)

TaskBuilder(name, argument, runif) ==
    [type |-> name, command |-> <<argument>>, working_dir |-> None,
     runif |-> runif, src |-> NoLocation]

generate_requirements_install(p, stage, job, project) ==
    add_task(p, stage, job, TaskBuilder("generate_requirements_install", project, "passed"))

generate_target_directory(p, stage, job) ==
    add_task(p, stage, job, TaskBuilder("generate_target_directory", None, "passed"))

generate_ami_cleanup(p, stage, job, runif) ==
    add_task(p, stage, job, TaskBuilder("generate_ami_cleanup", None, runif))

-----------------------------------------------------------------------------
(* patterns/tasks/private_releases.py *)

PRIVATE_RC_FILENAME == "PRIVATE_RC_FILENAME"
PRIVATE_PUBLIC_PR_FILENAME == "PRIVATE_PUBLIC_PR_FILENAME"
PUBLIC_PRIVATE_PUSH_FILENAME == "PUBLIC_PRIVATE_PUSH_FILENAME"

\* tasks.common.tubular_task: the task running a tubular script with arguments
tubular_task(script, arguments) ==
    [type |-> "exec", command |-> <<script>> \o arguments, working_dir |-> None,
     runif |-> "passed", src |-> NoLocation]

\* args.extend([flag, reference_repo]) when a reference repo is given
ReferenceRepo(flag, reference_repo) ==
    IF reference_repo # None THEN <<flag, reference_repo>> ELSE <<>>

generate_create_private_release_candidate(p, stage, job, target_reference_repo) ==
    LET p1 == ensure_job_unencrypted_secure_environment_variables(
                  p, stage, job, {"GIT_TOKEN"})
        p2 == ensure_job_environment_variables(
                  p1, stage, job, {"GIT_AUTHOR_NAME", "GIT_AUTHOR_EMAIL",
                                   "GIT_COMMITTER_NAME", "GIT_COMMITTER_EMAIL"})
        p3 == generate_target_directory(p2, stage, job)
        artifact_path == ARTIFACT_PATH \o "/" \o PRIVATE_RC_FILENAME
        p4 == ensure_task(p3, stage, job,
                          tubular_task("merge-approved-prs",
                                       <<"--token", "$GIT_TOKEN", "--out-file", artifact_path,
                                         "--sha-variable", "edx_platform_version",
                                         "--repo-variable", "edx_platform_repo">>
                                       \o ReferenceRepo("--target-reference-repo",
                                                        target_reference_repo)))
    IN  ensure_artifacts(p4, stage, job, {artifact_path})

generate_private_public_create_pr(p, stage, job, private_reference_repo) ==
    LET p1 == ensure_job_unencrypted_secure_environment_variables(
                  p, stage, job, {"GIT_TOKEN"})
        p2 == generate_target_directory(p1, stage, job)
        artifact_path == ARTIFACT_PATH \o "/" \o PRIVATE_PUBLIC_PR_FILENAME
        p3 == ensure_task(p2, stage, job,
                          tubular_task("create_private_to_public_pr.py",
                                       <<"--token", "$GIT_TOKEN",
                                         "--output_file", artifact_path>>
                                       \o ReferenceRepo("--reference_repo",
                                                        private_reference_repo)))
    IN  ensure_artifacts(p3, stage, job, {artifact_path})

\* generate_public_private_merge, had it added its task with add_task
generate_public_private_merge_added(p, stage, job, public_reference_repo) ==
    LET p1 == ensure_job_unencrypted_secure_environment_variables(
                  p, stage, job, {"GIT_TOKEN"})
        p2 == generate_target_directory(p1, stage, job)
        artifact_path == ARTIFACT_PATH \o "/" \o PUBLIC_PRIVATE_PUSH_FILENAME
    IN  add_task(p2, stage, job,
                 tubular_task("push_public_to_private.py",
                              <<"--token", "$GIT_TOKEN", "--output_file", artifact_path>>
                              \o ReferenceRepo("--reference_repo", public_reference_repo)))

generate_public_private_merge(p, stage, job, public_reference_repo) ==
    LET p1 == ensure_job_unencrypted_secure_environment_variables(
                  p, stage, job, {"GIT_TOKEN"})
        p2 == generate_target_directory(p1, stage, job)
        artifact_path == ARTIFACT_PATH \o "/" \o PUBLIC_PRIVATE_PUSH_FILENAME
    IN  ensure_task(p2, stage, job,
                    tubular_task("push_public_to_private.py",
                                 <<"--token", "$GIT_TOKEN", "--output_file", artifact_path>>
                                 \o ReferenceRepo("--reference_repo",
                                                  public_reference_repo)))

TaskCall(builder, reference_repo) == [builder |-> builder, reference_repo |-> reference_repo]

TaskCalls ==
    {TaskCall(builder, reference_repo) :
        builder \in {"generate_create_private_release_candidate",
                     "generate_private_public_create_pr",
                     "generate_public_private_merge"},
        reference_repo \in {None, "/reference"}}

apply_task_builder(c, p, stage, job) ==
    CASE c.builder = "generate_create_private_release_candidate" ->
             generate_create_private_release_candidate(p, stage, job, c.reference_repo)
      [] c.builder = "generate_private_public_create_pr" ->
             generate_private_public_create_pr(p, stage, job, c.reference_repo)
      [] c.builder = "generate_public_private_merge" ->
             generate_public_private_merge(p, stage, job, c.reference_repo)

-----------------------------------------------------------------------------
(* patterns/stages.py *)

\* Gate, had a false manual_approval cleared the stage's approval
Gate_assigned(p, stage, manual_approval) ==
    [p EXCEPT !.stages[IndexOf(p.stages, stage)].manual = manual_approval]

Gate(p, stage, manual_approval) ==
    IF manual_approval THEN set_has_manual_approval(p, stage) ELSE p

LaunchArtifact(p, file_name) ==
    FetchArtifactTask(p.name, LAUNCH_INSTANCE_STAGE_NAME, LAUNCH_INSTANCE_JOB_NAME,
                      file_name, ARTIFACT_PATH)

generate_launch_instance(pipeline, manual_approval) ==
    LET p1 == ensure_environment_variables(
                  ensure_encrypted_environment_variables(
                      pipeline, {"AWS_ACCESS_KEY_ID", "AWS_SECRET_ACCESS_KEY"}),
                  {"EC2_VPC_SUBNET_ID", "EC2_SECURITY_GROUP_ID", "EC2_ASSIGN_PUBLIC_IP",
                   "EC2_TIMEOUT", "EC2_REGION", "EBS_VOLUME_SIZE", "EC2_INSTANCE_TYPE",
                   "EC2_INSTANCE_PROFILE_NAME", "NO_REBOOT", "BASE_AMI_ID",
                   "ANSIBLE_CONFIG"})
        p2 == Gate(ensure_stage(p1, LAUNCH_INSTANCE_STAGE_NAME),
                   LAUNCH_INSTANCE_STAGE_NAME, manual_approval)
        p3 == ensure_job(p2, LAUNCH_INSTANCE_STAGE_NAME, LAUNCH_INSTANCE_JOB_NAME)
        p4 == generate_requirements_install(p3, LAUNCH_INSTANCE_STAGE_NAME,
                                            LAUNCH_INSTANCE_JOB_NAME, "tubular")
        p5 == generate_requirements_install(p4, LAUNCH_INSTANCE_STAGE_NAME,
                                            LAUNCH_INSTANCE_JOB_NAME, "configuration")
    IN  add_task(p5, LAUNCH_INSTANCE_STAGE_NAME, LAUNCH_INSTANCE_JOB_NAME,
                 TaskBuilder("generate_launch_instance", None, "passed"))

generate_run_play(pipeline, manual_approval) ==
    LET p1 == ensure_environment_variables(
                  ensure_encrypted_environment_variables(
                      pipeline, {"HIPCHAT_TOKEN", "PRIVATE_GITHUB_KEY"}),
                  {"PLAY", "DEPLOYMENT", "EDX_ENVIRONMENT", "APP_REPO", "ARTIFACT_PATH",
                   "HIPCHAT_ROOM", "ANSIBLE_CONFIG"})
        p2 == Gate(ensure_stage(p1, RUN_PLAY_STAGE_NAME), RUN_PLAY_STAGE_NAME,
                   manual_approval)
        p3 == ensure_job(p2, RUN_PLAY_STAGE_NAME, RUN_PLAY_JOB_NAME)
        p4 == generate_requirements_install(p3, RUN_PLAY_STAGE_NAME, RUN_PLAY_JOB_NAME,
                                            "tubular")
        p5 == generate_requirements_install(p4, RUN_PLAY_STAGE_NAME, RUN_PLAY_JOB_NAME,
                                            "configuration")
        p6 == generate_target_directory(p5, RUN_PLAY_STAGE_NAME, RUN_PLAY_JOB_NAME)
        p7 == add_task(p6, RUN_PLAY_STAGE_NAME, RUN_PLAY_JOB_NAME,
                       LaunchArtifact(pipeline, "key.pem"))
        p8 == add_task(p7, RUN_PLAY_STAGE_NAME, RUN_PLAY_JOB_NAME,
                       LaunchArtifact(pipeline, "launch_info.yml"))
        p9 == add_task(p8, RUN_PLAY_STAGE_NAME, RUN_PLAY_JOB_NAME,
                       LaunchArtifact(pipeline, "ansible_inventory"))
    IN  add_task(p9, RUN_PLAY_STAGE_NAME, RUN_PLAY_JOB_NAME,
                 TaskBuilder("generate_run_app_playbook", None, "passed"))

generate_create_ami_from_instance(pipeline, manual_approval) ==
    LET p1 == Gate(ensure_stage(pipeline, BUILD_AMI_STAGE_NAME), BUILD_AMI_STAGE_NAME,
                   manual_approval)
        p2 == ensure_environment_variables(
                  ensure_encrypted_environment_variables(
                      p1, {"AWS_ACCESS_KEY_ID", "AWS_SECRET_ACCESS_KEY"}),
                  {"PLAY", "DEPLOYMENT", "EDX_ENVIRONMENT", "APP_REPO",
                   "CONFIGURATION_REPO", "CONFIGURATION_SECURE_REPO",
                   "AMI_CREATION_TIMEOUT", "AMI_WAIT", "CACHE_ID", "ARTIFACT_PATH",
                   "HIPCHAT_ROOM", "ANSIBLE_CONFIG"})
        p3 == ensure_job(p2, BUILD_AMI_STAGE_NAME, BUILD_AMI_JOB_NAME)
        p4 == generate_requirements_install(p3, BUILD_AMI_STAGE_NAME, BUILD_AMI_JOB_NAME,
                                            "tubular")
        p5 == generate_requirements_install(p4, BUILD_AMI_STAGE_NAME, BUILD_AMI_JOB_NAME,
                                            "configuration")
        p6 == generate_target_directory(p5, BUILD_AMI_STAGE_NAME, BUILD_AMI_JOB_NAME)
        p7 == add_task(p6, BUILD_AMI_STAGE_NAME, BUILD_AMI_JOB_NAME,
                       LaunchArtifact(pipeline, "launch_info.yml"))
    IN  add_task(p7, BUILD_AMI_STAGE_NAME, BUILD_AMI_JOB_NAME,
                 TaskBuilder("generate_create_ami", None, "passed"))

\* the deployment output file, constants.ARTIFACT_PATH/DEPLOY_AMI_OUT_FILENAME
DeployArtifactPath == ARTIFACT_PATH \o "/" \o DEPLOY_AMI_OUT_FILENAME

\* deploy_job_command, had it named the AMI id whatever the upstream artifact
deploy_job_command_ami_id(upstream_ami_artifact) ==
    <<"/usr/bin/python", "scripts/asgard-deploy.py",
      "--out_file", "../" \o DeployArtifactPath>>
    \o (IF upstream_ami_artifact # NoLocation
        THEN <<"--config-file", upstream_ami_artifact.file_name>>
        ELSE <<>>)
    \o <<"--ami_id", "$AMI_ID">>

\* job_command of generate_deploy_ami
deploy_job_command(upstream_ami_artifact) ==
    <<"/usr/bin/python", "scripts/asgard-deploy.py",
      "--out_file", "../" \o DeployArtifactPath>>
    \o IF upstream_ami_artifact # NoLocation
       THEN <<"--config-file", upstream_ami_artifact.file_name>>
       ELSE <<"--ami_id", "$AMI_ID">>

generate_deploy_ami(pipeline, upstream_ami_artifact, manual_approval) ==
    LET p1 == ensure_encrypted_environment_variables(
                  ensure_environment_variables(
                      pipeline, {"ASGARD_API_ENDPOINTS", "WAIT_SLEEP_TIME"}),
                  {"ASGARD_API_TOKEN", "AWS_ACCESS_KEY_ID", "AWS_SECRET_ACCESS_KEY"})
        p2 == Gate(ensure_stage(p1, DEPLOY_AMI_STAGE_NAME), DEPLOY_AMI_STAGE_NAME,
                   manual_approval)
        p3 == ensure_job(p2, DEPLOY_AMI_STAGE_NAME, DEPLOY_AMI_JOB_NAME)
        p4 == generate_requirements_install(p3, DEPLOY_AMI_STAGE_NAME,
                                            DEPLOY_AMI_JOB_NAME, "tubular")
        p5 == ensure_artifacts(p4, DEPLOY_AMI_STAGE_NAME, DEPLOY_AMI_JOB_NAME,
                               {DeployArtifactPath})
        p6 == IF upstream_ami_artifact # NoLocation
              THEN add_task(p5, DEPLOY_AMI_STAGE_NAME, DEPLOY_AMI_JOB_NAME,
                            FetchArtifactTask(upstream_ami_artifact.pipeline,
                                              upstream_ami_artifact.stage,
                                              upstream_ami_artifact.job,
                                              upstream_ami_artifact.file_name, "tubular"))
              ELSE ensure_environment_variables(p5, {"AMI_ID"})
        p7 == add_task(p6, DEPLOY_AMI_STAGE_NAME, DEPLOY_AMI_JOB_NAME,
                       ExecTask(<<"/bin/bash", "-c", "mkdir -p ../" \o ARTIFACT_PATH>>,
                                "tubular", "passed"))
    IN  add_task(p7, DEPLOY_AMI_STAGE_NAME, DEPLOY_AMI_JOB_NAME,
                 ExecTask(deploy_job_command(upstream_ami_artifact), "tubular", "passed"))

\* generate_edp_validation, had the notification task run whatever came before
generate_edp_validation_notify_any(pipeline, manual_approval) ==
    LET p1 == ensure_encrypted_environment_variables(
                  ensure_environment_variables(
                      pipeline, {"AMI_ID", "AMI_DEPLOYMENT", "HIPCHAT_CHANNELS",
                                 "ASGARD_API_ENDPOINTS", "AMI_ENVIRONMENT", "AMI_PLAY"}),
                  {"HIPCHAT_TOKEN"})
        p2 == Gate(ensure_stage(p1, "Validation"), "Validation", manual_approval)
        p3 == ensure_job(p2, "Validation", "EDPValidation")
        p4 == generate_requirements_install(p3, "Validation", "EDPValidation", "tubular")
        p5 == add_task(p4, "Validation", "EDPValidation",
                       ExecTask(<<"/usr/bin/python", "scripts/validate_edp.py">>,
                                "tubular", "passed"))
    IN  add_task(p5, "Validation", "EDPValidation",
                 ExecTask(<<"/bin/bash", "-c", "scripts/submit_hipchat_msg.py">>,
                          "tubular", "any"))

generate_edp_validation(pipeline, manual_approval) ==
    LET p1 == ensure_encrypted_environment_variables(
                  ensure_environment_variables(
                      pipeline, {"AMI_ID", "AMI_DEPLOYMENT", "HIPCHAT_CHANNELS",
                                 "ASGARD_API_ENDPOINTS", "AMI_ENVIRONMENT", "AMI_PLAY"}),
                  {"HIPCHAT_TOKEN"})
        p2 == Gate(ensure_stage(p1, "Validation"), "Validation", manual_approval)
        p3 == ensure_job(p2, "Validation", "EDPValidation")
        p4 == generate_requirements_install(p3, "Validation", "EDPValidation", "tubular")
        p5 == add_task(p4, "Validation", "EDPValidation",
                       ExecTask(<<"/usr/bin/python", "scripts/validate_edp.py">>,
                                "tubular", "passed"))
    IN  add_task(p5, "Validation", "EDPValidation",
                 ExecTask(<<"/bin/bash", "-c", "scripts/submit_hipchat_msg.py">>,
                          "tubular", "failed"))

APPLY_MIGRATIONS_STAGE == "apply_migrations"
APPLY_MIGRATIONS_JOB == "apply_migrations_job"

\* stage_name of generate_run_migrations, had it ignored the sub-application
run_migrations_stage_name_bare(sub_application_name) == APPLY_MIGRATIONS_STAGE

\* stage_name of generate_run_migrations
run_migrations_stage_name(sub_application_name) ==
    IF sub_application_name # None
    THEN APPLY_MIGRATIONS_STAGE \o "_" \o sub_application_name
    ELSE APPLY_MIGRATIONS_STAGE

generate_run_migrations(pipeline, sub_application_name, manual_approval) ==
    LET stage_name == run_migrations_stage_name(sub_application_name)
        p1 == ensure_encrypted_environment_variables(
                  ensure_environment_variables(
                      pipeline, {"APPLICATION_USER", "APPLICATION_NAME", "APPLICATION_PATH",
                                 "DB_MIGRATION_USER", "ARTIFACT_PATH", "ANSIBLE_CONFIG"}),
                  {"DB_MIGRATION_PASS"})
        p2 == Gate(ensure_stage(p1, stage_name), stage_name, manual_approval)
        p3 == ensure_job(p2, stage_name, APPLY_MIGRATIONS_JOB)
        p4 == add_task(p3, stage_name, APPLY_MIGRATIONS_JOB,
                       LaunchArtifact(pipeline, "ansible_inventory"))
        p5 == add_task(p4, stage_name, APPLY_MIGRATIONS_JOB,
                       LaunchArtifact(pipeline, "key.pem"))
        p6 == generate_target_directory(p5, stage_name, APPLY_MIGRATIONS_JOB)
        p7 == add_task(p6, stage_name, APPLY_MIGRATIONS_JOB,
                       LaunchArtifact(pipeline, "launch_info.yml"))
        p8 == add_task(p7, stage_name, APPLY_MIGRATIONS_JOB,
                       ExecTask(<<"/bin/bash", "-c", "chmod 600 key.pem">>,
                                ARTIFACT_PATH, "passed"))
        p9 == generate_requirements_install(p8, stage_name, APPLY_MIGRATIONS_JOB,
                                            "configuration")
    IN  add_task(p9, stage_name, APPLY_MIGRATIONS_JOB,
                 TaskBuilder("generate_run_migrations", sub_application_name, "passed"))

generate_terminate_instance(pipeline, runif, manual_approval) ==
    LET p1 == ensure_environment_variables(
                  ensure_encrypted_environment_variables(
                      pipeline, {"AWS_ACCESS_KEY_ID", "AWS_SECRET_ACCESS_KEY",
                                 "HIPCHAT_TOKEN"}),
                  {"ARTIFACT_PATH", "EC2_REGION", "HIPCHAT_ROOM"})
        p2 == Gate(ensure_stage(p1, TERMINATE_INSTANCE_STAGE_NAME),
                   TERMINATE_INSTANCE_STAGE_NAME, manual_approval)
        p3 == ensure_job(p2, TERMINATE_INSTANCE_STAGE_NAME, TERMINATE_INSTANCE_JOB_NAME)
        p4 == generate_requirements_install(p3, TERMINATE_INSTANCE_STAGE_NAME,
                                            TERMINATE_INSTANCE_JOB_NAME, "configuration")
        p5 == add_task(p4, TERMINATE_INSTANCE_STAGE_NAME, TERMINATE_INSTANCE_JOB_NAME,
                       LaunchArtifact(pipeline, "launch_info.yml"))
    IN  generate_ami_cleanup(p5, TERMINATE_INSTANCE_STAGE_NAME,
                             TERMINATE_INSTANCE_JOB_NAME, runif)

\* the rollback output file, constants.ARTIFACT_PATH/ROLLBACK_AMI_OUT_FILENAME
RollbackArtifactPath == ARTIFACT_PATH \o "/" \o ROLLBACK_AMI_OUT_FILENAME

generate_rollback_asg_stage(pipeline, deploy_file_location) ==
    LET p1 == ensure_encrypted_environment_variables(
                  ensure_environment_variables(
                      pipeline, {"ASGARD_API_ENDPOINTS", "HIPCHAT_ROOM"}),
                  {"ASGARD_API_TOKEN", "AWS_ACCESS_KEY_ID", "AWS_SECRET_ACCESS_KEY",
                   "HIPCHAT_TOKEN"})
        p2 == set_has_manual_approval(ensure_stage(p1, ROLLBACK_ASGS_STAGE_NAME),
                                      ROLLBACK_ASGS_STAGE_NAME)
        p3 == ensure_job(p2, ROLLBACK_ASGS_STAGE_NAME, ROLLBACK_ASGS_JOB_NAME)
        p4 == generate_requirements_install(p3, ROLLBACK_ASGS_STAGE_NAME,
                                            ROLLBACK_ASGS_JOB_NAME, "tubular")
        p5 == add_task(p4, ROLLBACK_ASGS_STAGE_NAME, ROLLBACK_ASGS_JOB_NAME,
                       FetchArtifactTask(deploy_file_location.pipeline,
                                         deploy_file_location.stage,
                                         deploy_file_location.job,
                                         deploy_file_location.file_name, "tubular"))
        p6 == add_task(p5, ROLLBACK_ASGS_STAGE_NAME, ROLLBACK_ASGS_JOB_NAME,
                       ExecTask(<<"/bin/bash", "-c", "mkdir -p ../target">>,
                                "tubular", "passed"))
        p7 == ensure_artifacts(p6, ROLLBACK_ASGS_STAGE_NAME, ROLLBACK_ASGS_JOB_NAME,
                               {RollbackArtifactPath})
    IN  add_task(p7, ROLLBACK_ASGS_STAGE_NAME, ROLLBACK_ASGS_JOB_NAME,
                 ExecTask(<<"/usr/bin/python", "scripts/rollback_asg.py",
                            "--config_file", deploy_file_location.file_name,
                            "--out_file", "../" \o RollbackArtifactPath>>,
                          "tubular", "passed"))

generate_armed_stage(pipeline, stage_name) ==
    add_task(ensure_job(ensure_stage(pipeline, stage_name), stage_name, ARMED_JOB_NAME),
             stage_name, ARMED_JOB_NAME,
             ExecTask(<<"/bin/bash", "-c", "echo armed">>, None, "passed"))

\* The functions stages.py defines and the parameters they take; a call
\* naming a function it does not define, or passing a keyword the function
\* does not take (and it takes no **kwargs), raises instead of running.
generate_asg_cleanup(pipeline, manual_approval) ==
    LET p1 == ensure_encrypted_environment_variables(
                  ensure_environment_variables(pipeline, {"ASGARD_API_ENDPOINTS"}),
                  {"ASGARD_API_TOKEN", "AWS_ACCESS_KEY_ID", "AWS_SECRET_ACCESS_KEY"})
        p2 == Gate(ensure_stage(p1, "ASG-Cleanup-Stage"), "ASG-Cleanup-Stage",
                   manual_approval)
        p3 == ensure_job(p2, "ASG-Cleanup-Stage", "Cleanup-ASGS")
        p4 == generate_requirements_install(p3, "ASG-Cleanup-Stage", "Cleanup-ASGS", "tubular")
    IN  add_task(p4, "ASG-Cleanup-Stage", "Cleanup-ASGS",
                 ExecTask(<<"/usr/bin/python", "scripts/cleanup-asgs.py">>,
                          "tubular", "passed"))

\* generate_ansible_stage; task: the name of the task builder it is handed
generate_ansible_stage(stage_name, task, pipeline, manual_approval) ==
    LET job == stage_name \o "_job"
        p1 == ensure_encrypted_environment_variables(
                  ensure_environment_variables(
                      pipeline, {"APPLICATION_USER", "APPLICATION_NAME", "APPLICATION_PATH",
                                 "HIPCHAT_ROOM"}),
                  {"HIPCHAT_TOKEN"})
        p2 == ensure_job(Gate(ensure_stage(p1, stage_name), stage_name, manual_approval),
                         stage_name, job)
        p3 == add_tasks(p2, stage_name, job,
                        <<FetchArtifactTask(pipeline.name, LAUNCH_INSTANCE_STAGE_NAME,
                                            LAUNCH_INSTANCE_JOB_NAME, "ansible_inventory",
                                            "configuration"),
                          FetchArtifactTask(pipeline.name, LAUNCH_INSTANCE_STAGE_NAME,
                                            LAUNCH_INSTANCE_JOB_NAME, "key.pem",
                                            "configuration")>>)
        p4 == add_task(generate_target_directory(p3, stage_name, job), stage_name, job,
                       FetchArtifactTask(pipeline.name, LAUNCH_INSTANCE_STAGE_NAME,
                                         LAUNCH_INSTANCE_JOB_NAME, "launch_info.yml",
                                         "target"))
        p5 == add_task(p4, stage_name, job,
                       ExecTask(<<"/bin/bash", "-c", "chmod 600 key.pem">>,
                                "configuration", "passed"))
        p6 == generate_requirements_install(p5, stage_name, job, "configuration")
    IN  add_task(p6, stage_name, job, TaskBuilder(task, None, "passed"))

generate_refresh_metadata(pipeline, manual_approval) ==
    generate_ansible_stage("refresh_metadata", "generate_refresh_metadata", pipeline,
                           manual_approval)

generate_update_index(pipeline, manual_approval) ==
    generate_ansible_stage("update_index", "generate_update_index", pipeline,
                           manual_approval)

StageBuilders ==
    {"generate_asg_cleanup", "generate_launch_instance", "generate_run_play",
     "generate_create_ami_from_instance", "generate_deploy_ami",
     "generate_edp_validation", "generate_run_migrations",
     "generate_terminate_instance", "generate_rollback_asg_stage",
     "generate_ansible_stage", "generate_refresh_metadata", "generate_update_index",
     "generate_armed_stage"}

TakesKwargs == {"generate_run_play", "generate_create_ami_from_instance"}

ParametersOf(builder) ==
    CASE builder = "generate_launch_instance" ->
             {"pipeline", "aws_access_key_id", "aws_secret_access_key",
              "ec2_vpc_subnet_id", "ec2_security_group_id",
              "ec2_instance_profile_name", "base_ami_id", "manual_approval",
              "ec2_region", "ec2_instance_type", "ec2_timeout", "ec2_ebs_volume_size"}
      [] builder = "generate_run_migrations" ->
             {"pipeline", "db_migration_pass", "inventory_location",
              "instance_key_location", "launch_info_location", "application_user",
              "application_name", "application_path", "sub_application_name",
              "manual_approval"}
      [] builder = "generate_terminate_instance" ->
             {"pipeline", "instance_info_location", "aws_access_key_id",
              "aws_secret_access_key", "hipchat_auth_token", "ec2_region",
              "artifact_path", "runif", "manual_approval"}
      [] builder = "generate_deploy_ami" ->
             {"pipeline", "asgard_api_endpoints", "asgard_token", "aws_access_key_id",
              "aws_secret_access_key", "upstream_ami_artifact", "manual_approval"}
      [] OTHER -> {}

call_outcome(builder, keywords) ==
    IF builder \notin StageBuilders THEN "AttributeError"
    ELSE IF builder \notin TakesKwargs /\ ~(keywords \subseteq ParametersOf(builder))
    THEN "TypeError"
    ELSE "ok"

-----------------------------------------------------------------------------
(* Materials of edxpipelines.materials *)

TUBULAR == GitMaterial("tubular")
CONFIGURATION == GitMaterial("configuration")
EDX_APROS == GitMaterial("apros")
deployment_secure(deployment) == GitMaterial(deployment \o "-secure")
deployment_internal(deployment) == GitMaterial(deployment \o "-internal")

-----------------------------------------------------------------------------
(* patterns/jobs.py: the job builders called by apros.py.  Each ensures   *)
(* its job in the stage it is given and adds its work to it.              *)

JobBuilderTask(builder, sub_app, location) ==
    [type |-> builder, command |-> <<sub_app>>, working_dir |-> None,
     runif |-> "passed", src |-> location]

job_builder(p, stage, job, builder, sub_app, location) ==
    add_task(ensure_job(p, stage, job), stage, job,
             JobBuilderTask(builder, sub_app, location))

Call(builder, pipeline, stage, edp, sub_app, location, ami_location) ==
    [builder |-> builder, pipeline |-> pipeline, stage |-> stage, edp |-> edp,
     sub_app |-> sub_app, location |-> location, ami_location |-> ami_location]

-----------------------------------------------------------------------------
(* patterns/apros.py *)

SeqsUpTo(S, n) == UNION {[1..k -> S] : k \in 0..n}

EnvsOf(edps) == {edps[i].environment : i \in 1..Len(edps)}

\* all_edps = continuous_deployment_edps + manual_deployment_edps
all_edps(a) == a.continuous_deployment_edps \o a.manual_deployment_edps

\* ed_dict[environment]: the EDPs of that environment, in all_edps order
ed_dict(a, environment) ==
    SelectSeq(all_edps(a), LAMBDA edp : edp.environment = environment)

\* plays_of, had the plays been taken from the continuous EDPs alone
plays_of_continuous(a) ==
    {a.continuous_deployment_edps[i].play : i \in 1..Len(a.continuous_deployment_edps)}

\* plays = {edp.play for edp in all_edps}
plays_of(a) == {all_edps(a)[i].play : i \in 1..Len(all_edps(a))}

\* manual_envs = {edp.environment for edp in manual_deployment_edps}
manual_envs(a) == EnvsOf(a.manual_deployment_edps)

\* the check on manual_envs when no manual_pipeline_name is given
ambiguous_manual_envs(a) ==
    a.manual_pipeline_name = None /\ Cardinality(manual_envs(a)) > 1

\* _generate_deployment_stages, had it left the rollback stages ungated
_generate_deployment_stages_ungated(pipeline, has_migrations) ==
    LET p2 == ensure_stage(ensure_stage(pipeline, DEPLOY_AMI_STAGE_NAME),
                           ROLLBACK_ASGS_STAGE_NAME)
    IN  IF has_migrations THEN ensure_stage(p2, ROLLBACK_MIGRATIONS_STAGE_NAME) ELSE p2

\* DeploymentStages: the stages _generate_deployment_stages creates.
_generate_deployment_stages(pipeline, has_migrations) ==
    LET p1 == ensure_stage(pipeline, DEPLOY_AMI_STAGE_NAME)
        p2 == set_has_manual_approval(
                  ensure_stage(p1, ROLLBACK_ASGS_STAGE_NAME),
                  ROLLBACK_ASGS_STAGE_NAME)
    IN  IF has_migrations
        THEN set_has_manual_approval(
                 ensure_stage(p2, ROLLBACK_MIGRATIONS_STAGE_NAME),
                 ROLLBACK_MIGRATIONS_STAGE_NAME)
        ELSE p2

\* frame_cd_pipeline, had it used ensure_pipeline (no replacement)
frame_cd_pipeline_kept(g, cd_pipeline_name, has_migrations) ==
    LET g1 == IF HasName(g, cd_pipeline_name) THEN g
              ELSE Append(g, NewPipeline(cd_pipeline_name))
        p1 == set_label_template(PipelineOf(g1, cd_pipeline_name),
                                 DEPLOYMENT_PIPELINE_LABEL_TPL(EDX_APROS))
        p2 == ensure_stage(p1, BUILD_AMI_STAGE_NAME)
    IN  SetPipeline(g1, _generate_deployment_stages(p2, has_migrations))

\* Framing the continuous deployment pipeline.
frame_cd_pipeline(g, cd_pipeline_name, has_migrations) ==
    LET g1 == ensure_replacement_of_pipeline(g, cd_pipeline_name)
        p1 == set_label_template(PipelineOf(g1, cd_pipeline_name),
                                 DEPLOYMENT_PIPELINE_LABEL_TPL(EDX_APROS))
        p2 == ensure_stage(p1, BUILD_AMI_STAGE_NAME)
    IN  SetPipeline(g1, _generate_deployment_stages(p2, has_migrations))

\* frame_manual_pipeline, had it left the deploy stage ungated
frame_manual_pipeline_ungated(g, cd_pipeline_name, manual_pipeline_name, has_migrations) ==
    LET g1 == ensure_replacement_of_pipeline(g, manual_pipeline_name)
        p1 == ensure_material(
                  PipelineOf(g1, manual_pipeline_name),
                  PipelineMaterial(cd_pipeline_name, BUILD_AMI_STAGE_NAME, cd_pipeline_name))
        p2 == set_label_template(p1, "${" \o cd_pipeline_name \o "}")
        p3 == generate_armed_stage(p2, ARMED_STAGE_NAME)
    IN  SetPipeline(g1, _generate_deployment_stages(p3, has_migrations))

\* Framing the manual deployment pipeline and wiring it to the continuous one.
frame_manual_pipeline(g, cd_pipeline_name, manual_pipeline_name, has_migrations) ==
    LET g1 == ensure_replacement_of_pipeline(g, manual_pipeline_name)
        p1 == ensure_material(
                  PipelineOf(g1, manual_pipeline_name),
                  PipelineMaterial(cd_pipeline_name, BUILD_AMI_STAGE_NAME, cd_pipeline_name))
        p2 == set_label_template(p1, "${" \o cd_pipeline_name \o "}")
        p3 == generate_armed_stage(p2, ARMED_STAGE_NAME)
        p4 == _generate_deployment_stages(p3, has_migrations)
    IN  SetPipeline(g1, set_has_manual_approval(p4, DEPLOY_AMI_STAGE_NAME))

RECURSIVE EnsureAll(_, _)
EnsureAll(p, materials) ==
    IF materials = <<>> THEN p
    ELSE EnsureAll(ensure_material(p, Head(materials)), Tail(materials))

\* the materials common across environments, in the order they are ensured
common_materials(a) ==
    <<TUBULAR, CONFIGURATION>>
    \o [i \in 1..Len(all_edps(a)) |-> deployment_secure(all_edps(a)[i].deployment)]
    \o [i \in 1..Len(all_edps(a)) |-> deployment_internal(all_edps(a)[i].deployment)]

\* ensure_materials, had the manual pipeline been left without the materials
ensure_materials_cd_only(g, a, l) ==
    SetPipeline(g, EnsureAll(EnsureAll(PipelineOf(g, l.cd_pipeline_name),
                                       common_materials(a)),
                             <<EDX_APROS>>))

ensure_materials(g, a, l) ==
    LET cd == EnsureAll(EnsureAll(PipelineOf(g, l.cd_pipeline_name), common_materials(a)),
                        <<EDX_APROS>>)
        g1 == SetPipeline(g, cd)
    IN  IF l.manual
        THEN SetPipeline(g1, EnsureAll(PipelineOf(g1, l.manual_pipeline_name),
                                       common_materials(a)))
        ELSE g1

\* The stages framed for the continuous pipeline are still part of the tree
\* unless the pipeline of that name was emptied again for the manual pipeline.
cd_stages_attached(l) == ~(l.manual /\ l.manual_pipeline_name = l.cd_pipeline_name)

\* The job a job builder ensures in the stage it is handed.
JobOf(c) ==
    IF c.builder = "generate_build_ami" THEN "build_ami_job-" \o c.edp.environment
    ELSE IF c.builder = "generate_deploy_ami" THEN DEPLOY_AMI_JOB_NAME_TPL(c.edp)
    ELSE IF c.builder = "generate_rollback_asgs"
         THEN "rollback_asgs_job-" \o EdpSuffix(c.edp)
    ELSE "rollback_migrations_job-" \o EdpSuffix(c.edp)

\* The job-builder calls cs made on stages of one pipeline: their jobs land
\* in the tree when those stages are still attached to it.
RECURSIVE build_into(_, _, _)
build_into(g, attached, cs) ==
    IF ~attached \/ cs = <<>> THEN g
    ELSE LET c == Head(cs) IN
         build_into(
             SetPipeline(g, job_builder(PipelineOf(g, c.pipeline), c.stage, JobOf(c),
                                        c.builder, c.sub_app, c.location)),
             attached, Tail(cs))

\* The loop adding the jobs that build the AMIs goes through the
\* environments of ed_dict in order and stops at the first environment whose
\* list has no second EDP (version_tags reads (ed_dict[ed])[1]): the
\* environments it gets through.
RECURSIVE built_envs(_, _)
built_envs(a, order) ==
    IF order = <<>> \/ Len(ed_dict(a, Head(order))) < 2 THEN <<>>
    ELSE <<Head(order)>> \o built_envs(a, Tail(order))

\* build_ami_arguments, had the loop configured the job from the last EDP
build_ami_arguments_of_last(a, ed) ==
    LET edps == ed_dict(a, ed)
        last_edp == edps[Len(edps)]
    IN  [edps |-> edps,
         secure_material |-> deployment_secure(last_edp.deployment),
         internal_material |-> deployment_internal(last_edp.deployment),
         config |-> last_edp,
         version_tags |-> {edps[1].play, edps[2].play, "configuration",
                           "configuration_secure", "configuration_internal"}]

\* What one pass of the AMI-build loop hands to jobs.generate_build_ami for
\* the environment ed (which then has two EDPs or more): the EDPs of the
\* environment, the secure and internal material, the key of the config
\* dictionary it passes, and the keys of version_tags.
build_ami_arguments(a, ed) ==
    LET edps == ed_dict(a, ed)
    IN  [edps |-> edps,
         secure_material |-> deployment_secure(edps[1].deployment),
         internal_material |-> deployment_internal(edps[1].deployment),
         config |-> edps[1],
         version_tags |-> {edps[1].play, edps[2].play, "configuration",
                           "configuration_secure", "configuration_internal"}]

\* jobs.generate_build_ami(build_stage, ed_dict[ed], ...) for those environments
build_ami_calls(a, l, order) ==
    [i \in 1..Len(built_envs(a, order)) |->
        Call("generate_build_ami", l.cd_pipeline_name, BUILD_AMI_STAGE_NAME,
             build_ami_arguments(a, order[i]).config, None, NoLocation, NoLocation)]

\* deploy_calls_of, had the loop body had no has_migrations branch
deploy_calls_of_plain(a, l, pipeline, edp, sub_app) ==
    LET ami_artifact_location ==
            ArtifactLocation(l.cd_pipeline_name, BUILD_AMI_STAGE_NAME,
                             BUILD_AMI_JOB_NAME_TPL(edp), BUILD_AMI_FILENAME, FALSE)
        deployment_artifact_location ==
            ArtifactLocation(pipeline, DEPLOY_AMI_STAGE_NAME,
                             DEPLOY_AMI_JOB_NAME_TPL(edp), DEPLOY_AMI_OUT_FILENAME, FALSE)
    IN  <<Call("generate_deploy_ami", pipeline, DEPLOY_AMI_STAGE_NAME, edp,
               sub_app, ami_artifact_location, ami_artifact_location),
          Call("generate_rollback_asgs", pipeline, ROLLBACK_ASGS_STAGE_NAME, edp,
               sub_app, deployment_artifact_location, NoLocation)>>

\* deploy_calls_of, had the deployment-result location named the continuous pipeline
deploy_calls_of_cd_result(a, l, pipeline, edp, sub_app) ==
    LET ami_artifact_location ==
            ArtifactLocation(l.cd_pipeline_name, BUILD_AMI_STAGE_NAME,
                             BUILD_AMI_JOB_NAME_TPL(edp), BUILD_AMI_FILENAME, FALSE)
        deployment_artifact_location ==
            ArtifactLocation(l.cd_pipeline_name, DEPLOY_AMI_STAGE_NAME,
                             DEPLOY_AMI_JOB_NAME_TPL(edp), DEPLOY_AMI_OUT_FILENAME, FALSE)
        migration_info_location ==
            ArtifactLocation(pipeline, DEPLOY_AMI_STAGE_NAME \o "_" \o sub_app,
                             DEPLOY_AMI_JOB_NAME_TPL(edp), MIGRATION_OUTPUT_DIR_NAME, TRUE)
    IN  <<Call("generate_deploy_ami", pipeline, DEPLOY_AMI_STAGE_NAME, edp,
               sub_app, ami_artifact_location, ami_artifact_location),
          Call("generate_rollback_asgs", pipeline, ROLLBACK_ASGS_STAGE_NAME, edp,
               sub_app, deployment_artifact_location, NoLocation)>>
        \o IF a.has_migrations
           THEN <<Call("generate_rollback_migrations", pipeline,
                       ROLLBACK_MIGRATIONS_STAGE_NAME, edp, sub_app,
                       migration_info_location, ami_artifact_location)>>
           ELSE <<>>

\* One pass of the innermost loop body: the deploy, rollback-ASGs and (with
\* migrations) rollback-migrations job builders called for one EDP and
\* sub-application, with the ArtifactLocations built for them.
deploy_calls_of(a, l, pipeline, edp, sub_app) ==
    LET ami_artifact_location ==
            ArtifactLocation(l.cd_pipeline_name, BUILD_AMI_STAGE_NAME,
                             BUILD_AMI_JOB_NAME_TPL(edp), BUILD_AMI_FILENAME, FALSE)
        deployment_artifact_location ==
            ArtifactLocation(pipeline, DEPLOY_AMI_STAGE_NAME,
                             DEPLOY_AMI_JOB_NAME_TPL(edp), DEPLOY_AMI_OUT_FILENAME, FALSE)
        migration_info_location ==
            ArtifactLocation(pipeline, DEPLOY_AMI_STAGE_NAME \o "_" \o sub_app,
                             DEPLOY_AMI_JOB_NAME_TPL(edp), MIGRATION_OUTPUT_DIR_NAME, TRUE)
    IN  <<Call("generate_deploy_ami", pipeline, DEPLOY_AMI_STAGE_NAME, edp,
               sub_app, ami_artifact_location, ami_artifact_location),
          Call("generate_rollback_asgs", pipeline, ROLLBACK_ASGS_STAGE_NAME, edp,
               sub_app, deployment_artifact_location, NoLocation)>>
        \o IF a.has_migrations
           THEN <<Call("generate_rollback_migrations", pipeline,
                       ROLLBACK_MIGRATIONS_STAGE_NAME, edp, sub_app,
                       migration_info_location, ami_artifact_location)>>
           ELSE <<>>

\* for edp in edps: for sub_app in MCKA_SUBAPPS: ..., from the k-th pass on
RECURSIVE deploy_calls(_, _, _, _, _)
deploy_calls(a, l, pipeline, edps, k) ==
    IF k > Len(edps) * Len(MCKA_SUBAPPS) THEN <<>>
    ELSE deploy_calls_of(a, l, pipeline,
                         edps[((k - 1) \div Len(MCKA_SUBAPPS)) + 1],
                         MCKA_SUBAPPS[((k - 1) % Len(MCKA_SUBAPPS)) + 1])
         \o deploy_calls(a, l, pipeline, edps, k + 1)

\* cd_deploy_calls, had the continuous pipeline been paired with the manual EDPs
cd_deploy_calls_manual_edps(a, l) ==
    deploy_calls(a, l, l.cd_pipeline_name, a.manual_deployment_edps, 1)

cd_deploy_calls(a, l) ==
    deploy_calls(a, l, l.cd_pipeline_name, a.continuous_deployment_edps, 1)

manual_deploy_calls(a, l) ==
    deploy_calls(a, l, l.manual_pipeline_name, a.manual_deployment_edps, 1)

-----------------------------------------------------------------------------
(* A stage builder of stages.py applied to a pipeline *)

SomeAmi == ArtifactLocation("upstream", BUILD_AMI_STAGE_NAME, BUILD_AMI_JOB_NAME,
                            BUILD_AMI_FILENAME, FALSE)

SomeDeploy == ArtifactLocation("upstream", DEPLOY_AMI_STAGE_NAME, DEPLOY_AMI_JOB_NAME,
                               DEPLOY_AMI_OUT_FILENAME, FALSE)

StageCall(builder, manual_approval, upstream, runif, sub_app) ==
    [builder |-> builder, manual_approval |-> manual_approval, upstream |-> upstream,
     runif |-> runif, sub_app |-> sub_app]

StageCalls ==
    {StageCall(b, m, NoLocation, None, None) :
        b \in {"generate_launch_instance", "generate_run_play",
               "generate_create_ami_from_instance", "generate_edp_validation",
               "generate_asg_cleanup", "generate_refresh_metadata",
               "generate_update_index"},
        m \in BOOLEAN}
    \cup {StageCall("generate_deploy_ami", m, u, None, None) :
             m \in BOOLEAN, u \in {NoLocation, SomeAmi}}
    \cup {StageCall("generate_run_migrations", m, NoLocation, None, sub) :
             m \in BOOLEAN, sub \in {None, "cms"}}
    \cup {StageCall("generate_terminate_instance", m, NoLocation, r, None) :
             m \in BOOLEAN, r \in {"any", "failed"}}
    \cup {StageCall("generate_rollback_asg_stage", TRUE, SomeDeploy, None, None),
          StageCall("generate_armed_stage", FALSE, NoLocation, None, None)}

apply_stage_builder(c, p) ==
    CASE c.builder = "generate_launch_instance" ->
             generate_launch_instance(p, c.manual_approval)
      [] c.builder = "generate_run_play" -> generate_run_play(p, c.manual_approval)
      [] c.builder = "generate_create_ami_from_instance" ->
             generate_create_ami_from_instance(p, c.manual_approval)
      [] c.builder = "generate_edp_validation" ->
             generate_edp_validation(p, c.manual_approval)
      [] c.builder = "generate_asg_cleanup" -> generate_asg_cleanup(p, c.manual_approval)
      [] c.builder = "generate_refresh_metadata" ->
             generate_refresh_metadata(p, c.manual_approval)
      [] c.builder = "generate_update_index" ->
             generate_update_index(p, c.manual_approval)
      [] c.builder = "generate_deploy_ami" ->
             generate_deploy_ami(p, c.upstream, c.manual_approval)
      [] c.builder = "generate_run_migrations" ->
             generate_run_migrations(p, c.sub_app, c.manual_approval)
      [] c.builder = "generate_terminate_instance" ->
             generate_terminate_instance(p, c.runif, c.manual_approval)
      [] c.builder = "generate_rollback_asg_stage" ->
             generate_rollback_asg_stage(p, c.upstream)
      [] c.builder = "generate_armed_stage" -> generate_armed_stage(p, ARMED_STAGE_NAME)

-----------------------------------------------------------------------------
(* patterns/edxapp.py *)

EdxappMaterials ==
    <<TUBULAR, CONFIGURATION, GitMaterial("edx-platform"), GitMaterial("edx-secure"),
      GitMaterial("edge-secure"), GitMaterial("edx-microsite"),
      GitMaterial("edx-internal"), GitMaterial("edge-internal")>>

\* rollback_asgs: the group it leaves and how it ends (the stage builder it
\* calls last, generate_message_prs, is not one stages.py defines).
rollback_asgs(g, pipeline_name, deploy_pipeline_name) ==
    LET g1 == ensure_replacement_of_pipeline(g, pipeline_name)
        p1 == ensure_environment_variables(PipelineOf(g1, pipeline_name),
                                           {"WAIT_SLEEP_TIME"})
        p2 == ensure_material(EnsureAll(p1, EdxappMaterials),
                              PipelineMaterial(deploy_pipeline_name, "deploy_ami",
                                               "deploy_pipeline"))
        deploy_file_location ==
            ArtifactLocation(deploy_pipeline_name, "deploy_ami", "deploy_ami_job",
                             "ami_deploy_info.yml", FALSE)
        p3 == generate_armed_stage(p2, ARMED_JOB_NAME)
        p4 == set_has_manual_approval(
                  generate_rollback_asg_stage(p3, deploy_file_location),
                  ROLLBACK_ASGS_STAGE_NAME)
        p5 == [p4 EXCEPT !.encrypted = @ \cup {"GITHUB_TOKEN"}]
    IN  [g |-> SetPipeline(g1, p5),
         pc |-> IF call_outcome("generate_message_prs", {"base_ami_artifact",
                                                         "ami_tag_app"}) = "ok"
                THEN "returned"
                ELSE call_outcome("generate_message_prs", {"base_ami_artifact",
                                                           "ami_tag_app"})]

\* generate_migrate_stages: the loop over config['edxapp_subapps']
RECURSIVE generate_migrate_stages(_, _)
generate_migrate_stages(pipeline, edxapp_subapps) ==
    IF edxapp_subapps = <<>> THEN pipeline
    ELSE generate_migrate_stages(
             generate_run_migrations(pipeline, Head(edxapp_subapps), FALSE),
             Tail(edxapp_subapps))

INITIAL_VERIFICATION_STAGE_NAME == "INITIAL_VERIFICATION_STAGE_NAME"
MANUAL_VERIFICATION_STAGE_NAME == "MANUAL_VERIFICATION_STAGE_NAME"
MANUAL_VERIFICATION_JOB_NAME == "MANUAL_VERIFICATION_JOB_NAME"

\* manual_verification: the group it leaves
manual_verification(g) ==
    LET name == "manual_verification_edxapp_prod_early_ami_build"
        g1 == ensure_replacement_of_pipeline(g, name)
        p1 == EnsureAll(PipelineOf(g1, name), EdxappMaterials)
        p2 == generate_armed_stage(p1, INITIAL_VERIFICATION_STAGE_NAME)
        p3 == set_has_manual_approval(ensure_stage(p2, MANUAL_VERIFICATION_STAGE_NAME),
                                      MANUAL_VERIFICATION_STAGE_NAME)
        p4 == ensure_job(p3, MANUAL_VERIFICATION_STAGE_NAME, MANUAL_VERIFICATION_JOB_NAME)
    IN  SetPipeline(g1, add_task(p4, MANUAL_VERIFICATION_STAGE_NAME,
                                 MANUAL_VERIFICATION_JOB_NAME,
                                 ExecTask(<<"/bin/bash", "-c", "echo Manual Verification">>,
                                          None, "passed")))

\* generate_cleanup_stages: the terminate stage, or the error its call raises
generate_cleanup_stages(p) ==
    LET outcome == call_outcome("generate_terminate_instance",
                                {"aws_access_key_id", "aws_secret_access_key",
                                 "hipchat_token", "runif"})
    IN  [p |-> IF outcome = "ok" THEN generate_terminate_instance(p, "any", FALSE) ELSE p,
         pc |-> outcome]

RECURSIVE apply_builders(_, _)
apply_builders(p, builders) ==
    IF builders = <<>> THEN p
    ELSE apply_builders(apply_stage_builder(Head(builders), p), Tail(builders))

\* build_migrate_deploy_subset_pipeline: the group it leaves and how it ends.
build_migrate_deploy_subset_pipeline(g, stage_builders, pipeline_name, ami_artifact, auto_run, post_cleanup_builders) ==
    LET g1 == ensure_replacement_of_pipeline(g, pipeline_name)
        p1 == PipelineOf(g1, pipeline_name)
        selection == IF ami_artifact = NoLocation
                     THEN call_outcome("generate_base_ami_selection", {})
                     ELSE "ok"
        launch == call_outcome("generate_launch_instance",
                               {"upstream_build_artifact", "manual_approval"})
        p2 == apply_builders(generate_launch_instance(p1, ~auto_run), stage_builders)
        cleanup == generate_cleanup_stages(p2)
    IN  IF selection # "ok" THEN [g |-> g1, pc |-> selection]
        ELSE IF launch # "ok" THEN [g |-> g1, pc |-> launch]
        ELSE IF cleanup.pc # "ok" THEN [g |-> SetPipeline(g1, p2), pc |-> cleanup.pc]
        ELSE [g |-> SetPipeline(g1, apply_builders(cleanup.p, post_cleanup_builders)),
              pc |-> "returned"]

-----------------------------------------------------------------------------
(* pipelines/cd_programs_multistage.py *)

\* install_pipeline: the group it leaves and how it ends.
install_pipeline(g) ==
    LET name == "loadtest-multistage-edx-programs-cd"
        g1 == ensure_replacement_of_pipeline(g, name)
        p1 == EnsureAll(PipelineOf(g1, name),
                        <<TUBULAR, CONFIGURATION, GitMaterial("configuration_secure")>>)
        p2 == generate_launch_instance(p1, FALSE)
        p3 == generate_run_play(p2, FALSE)
        p4 == generate_create_ami_from_instance(p3, FALSE)
        migrations == call_outcome("generate_run_migrations",
                          {"pipeline", "db_migration_pass", "artifact_path",
                           "inventory_location", "instance_key_location",
                           "launch_info_location", "application_user",
                           "application_name", "application_path"})
        p5 == generate_run_migrations(p4, None, FALSE)
        deploy == call_outcome("generate_basic_deploy_ami", {})
        terminate == call_outcome("generate_terminate_instance",
                         {"aws_access_key_id", "aws_secret_access_key",
                          "hipchat_auth_token", "runif"})
    IN  IF migrations # "ok"
        THEN [g |-> SetPipeline(g1, p4), pc |-> migrations, saved |-> <<>>]
        ELSE IF deploy # "ok"
        THEN [g |-> SetPipeline(g1, p5), pc |-> deploy, saved |-> <<>>]
        ELSE IF terminate # "ok"
        THEN [g |-> SetPipeline(g1, p5), pc |-> terminate, saved |-> <<>>]
        ELSE [g |-> SetPipeline(g1, generate_terminate_instance(p5, "any", FALSE)),
              pc |-> "saved",
              saved |-> <<SetPipeline(g1, generate_terminate_instance(p5, "any", FALSE))>>]

-----------------------------------------------------------------------------
(* pipelines/deploy_gomatic_pipelines.py *)

\* the keys install_pipeline looks up in config, in the order of the lookups
ConfigKeys ==
    <<"gocd_url", "gocd_username", "gocd_password", "pipeline_group", "pipeline_name",
      "gomatic_secure_repo", "gomatic_secure_version", "gomatic_user", "gomatic_password",
      "github_private_key">>

\* the merged configuration: its keys, all of them or all but one
Configs == {Range(ConfigKeys)} \cup {Range(ConfigKeys) \ {k} : k \in Range(ConfigKeys)}

\* install_pipeline, had it saved the configuration before filling the pipeline
deploy_gomatic_install_pipeline_saved_early(g, config, pipeline_name) ==
    IF {"gocd_url", "gocd_username", "gocd_password", "pipeline_group",
        "pipeline_name"} \subseteq config
    THEN [g |-> SetPipeline(ensure_replacement_of_pipeline(g, pipeline_name),
                            ensure_stage(NewPipeline(pipeline_name), "deploy_gomatic_stage")),
          pc |-> "saved",
          saved |-> <<ensure_replacement_of_pipeline(g, pipeline_name)>>]
    ELSE [g |-> g, pc |-> "KeyError", saved |-> <<>>]

\* install_pipeline: the group it leaves, how it ends ("saved": it returned
\* from save_updated_config; "KeyError": a config lookup raised before that)
\* and the configurations it handed to save_updated_config.
deploy_gomatic_install_pipeline(g, config, pipeline_name) ==
    LET g1 == ensure_replacement_of_pipeline(g, pipeline_name)
        p1 == EnsureAll(PipelineOf(g1, pipeline_name), <<TUBULAR, GitMaterial("edx-gomatic")>>)
        p2 == ensure_environment_variables(
                  p1, {"GOMATIC_SECURE_REPO", "GOMATIC_SECURE_VERSION"})
        p3 == ensure_encrypted_environment_variables(
                  p2, {"GOMATIC_USER", "GOMATIC_PASSWORD", "PRIVATE_GITHUB_KEY"})
        p4 == ensure_job(ensure_stage(p3, "deploy_gomatic_stage"),
                         "deploy_gomatic_stage", "deploy_gomatic_scripts_job")
        p5 == add_task(p4, "deploy_gomatic_stage", "deploy_gomatic_scripts_job",
                       TaskBuilder("fetch_gomatic_secure", "gomatic-secure", "passed"))
        p6 == generate_requirements_install(p5, "deploy_gomatic_stage",
                                            "deploy_gomatic_scripts_job", "edx-gomatic")
        p7 == add_task(p6, "deploy_gomatic_stage", "deploy_gomatic_scripts_job",
                       ExecTask(<<"/usr/bin/python", "deploy_pipelines.py", "-v", "tools",
                                  "-f", "config.yml">>, "edx-gomatic", "passed"))
    IN  IF ~({"gocd_url", "gocd_username", "gocd_password", "pipeline_group",
              "pipeline_name"} \subseteq config)
        THEN [g |-> g, pc |-> "KeyError", saved |-> <<>>]
        ELSE IF ~({"gomatic_secure_repo", "gomatic_secure_version"} \subseteq config)
        THEN [g |-> SetPipeline(g1, p1), pc |-> "KeyError", saved |-> <<>>]
        ELSE IF ~({"gomatic_user", "gomatic_password", "github_private_key"}
                      \subseteq config)
        THEN [g |-> SetPipeline(g1, p2), pc |-> "KeyError", saved |-> <<>>]
        ELSE [g |-> SetPipeline(g1, p7), pc |-> "saved", saved |-> <<SetPipeline(g1, p7)>>]

-----------------------------------------------------------------------------
(* pipelines/deploy_marketing_site.py *)

\* new_tag_name_artifact_params, had it named the fetch-tag stage and job
new_tag_name_artifact_params_of_fetch_tag ==
    FetchArtifactTask("DEPLOY_MARKETING_PIPELINE_NAME", "FETCH_TAG_STAGE_NAME",
                      "FETCH_TAG_JOB_NAME", "NEW_TAG_NAME.txt", "target")

\* FetchArtifactTask(**constants.new_tag_name_artifact_params)
new_tag_name_artifact_params ==
    FetchArtifactTask("DEPLOY_MARKETING_PIPELINE_NAME", "PUSH_TO_ACQUIA_STAGE_NAME",
                      "PUSH_TO_ACQUIA_JOB_NAME", "NEW_TAG_NAME.txt", "target")

\* install_pipelines: the group it leaves and how it ends ("returned", or
\* "KeyError" when a config lookup raised).
install_pipelines(g, config) ==
    LET name == "DEPLOY_MARKETING_PIPELINE_NAME"
        g1 == ensure_replacement_of_pipeline(g, name)
        p1 == EnsureAll(PipelineOf(g1, name),
                        <<TUBULAR, GitMaterial("edx-mktg"), GitMaterial("ecom-secure")>>)
        p2 == ensure_environment_variables(p1, {"MARKETING_REPOSITORY_VERSION"})
        p3 == ensure_encrypted_environment_variables(
                  p2, {"PRIVATE_GITHUB_KEY", "PRIVATE_ACQUIA_REMOTE",
                       "PRIVATE_ACQUIA_USERNAME", "PRIVATE_ACQUIA_PASSWORD",
                       "PRIVATE_ACQUIA_GITHUB_KEY"})
        package_install == TaskBuilder("generate_package_install", "tubular", "passed")
        target_directory == TaskBuilder("generate_target_directory", None, "passed")
        bash_task == ExecTask(<<"/bin/bash", "-c", "bash_task">>, None, "passed")
        fetch_tag ==
            ensure_artifacts(
                add_tasks(
                    ensure_job(
                        set_has_manual_approval(ensure_stage(p3, "FETCH_TAG_STAGE_NAME"),
                                                "FETCH_TAG_STAGE_NAME"),
                        "FETCH_TAG_STAGE_NAME", "FETCH_TAG_JOB_NAME"),
                    "FETCH_TAG_STAGE_NAME", "FETCH_TAG_JOB_NAME",
                    <<package_install, target_directory,
                      TaskBuilder("generate_fetch_tag", "stage", "passed"),
                      TaskBuilder("generate_fetch_tag", "prod", "passed")>>),
                "FETCH_TAG_STAGE_NAME", "FETCH_TAG_JOB_NAME",
                {"target/STAGE_TAG_NAME.txt", "target/PROD_TAG_NAME.txt"})
        push_to_acquia ==
            add_tasks(
                ensure_artifacts(
                    ensure_job(ensure_stage(fetch_tag, "PUSH_TO_ACQUIA_STAGE_NAME"),
                               "PUSH_TO_ACQUIA_STAGE_NAME", "PUSH_TO_ACQUIA_JOB_NAME"),
                    "PUSH_TO_ACQUIA_STAGE_NAME", "PUSH_TO_ACQUIA_JOB_NAME",
                    {"target/NEW_TAG_NAME.txt"}),
                "PUSH_TO_ACQUIA_STAGE_NAME", "PUSH_TO_ACQUIA_JOB_NAME",
                <<package_install, target_directory, bash_task, bash_task>>)
        backup_stage_database ==
            add_tasks(
                ensure_job(ensure_stage(push_to_acquia, "BACKUP_STAGE_DATABASE_STAGE_NAME"),
                           "BACKUP_STAGE_DATABASE_STAGE_NAME",
                           "BACKUP_STAGE_DATABASE_JOB_NAME"),
                "BACKUP_STAGE_DATABASE_STAGE_NAME", "BACKUP_STAGE_DATABASE_JOB_NAME",
                <<package_install,
                  TaskBuilder("generate_backup_drupal_database", "stage", "passed")>>)
        deploy_stage ==
            add_tasks(
                ensure_job(ensure_stage(backup_stage_database, "DEPLOY_STAGE_STAGE_NAME"),
                           "DEPLOY_STAGE_STAGE_NAME", "DEPLOY_STAGE_JOB_NAME"),
                "DEPLOY_STAGE_STAGE_NAME", "DEPLOY_STAGE_JOB_NAME",
                <<package_install, target_directory, new_tag_name_artifact_params,
                  TaskBuilder("generate_drupal_deploy", "stage", "passed")>>)
        clear_stage_caches ==
            add_tasks(
                ensure_job(ensure_stage(deploy_stage, "CLEAR_STAGE_CACHES_STAGE_NAME"),
                           "CLEAR_STAGE_CACHES_STAGE_NAME", "CLEAR_STAGE_CACHES_JOB_NAME"),
                "CLEAR_STAGE_CACHES_STAGE_NAME", "CLEAR_STAGE_CACHES_JOB_NAME",
                <<package_install, bash_task,
                  TaskBuilder("generate_flush_drupal_caches", "stage", "passed"),
                  TaskBuilder("generate_clear_varnish_cache", "stage", "passed")>>)
        backup_prod_database ==
            add_tasks(
                ensure_job(
                    set_has_manual_approval(
                        ensure_stage(clear_stage_caches, "BACKUP_PROD_DATABASE_STAGE_NAME"),
                        "BACKUP_PROD_DATABASE_STAGE_NAME"),
                    "BACKUP_PROD_DATABASE_STAGE_NAME", "BACKUP_PROD_DATABASE_JOB_NAME"),
                "BACKUP_PROD_DATABASE_STAGE_NAME", "BACKUP_PROD_DATABASE_JOB_NAME",
                <<package_install,
                  TaskBuilder("generate_backup_drupal_database", "prod", "passed")>>)
        deploy_prod ==
            add_tasks(
                ensure_job(ensure_stage(backup_prod_database, "DEPLOY_PROD_STAGE_NAME"),
                           "DEPLOY_PROD_STAGE_NAME", "DEPLOY_PROD_JOB_NAME"),
                "DEPLOY_PROD_STAGE_NAME", "DEPLOY_PROD_JOB_NAME",
                <<package_install, target_directory, new_tag_name_artifact_params,
                  TaskBuilder("generate_drupal_deploy", "prod", "passed")>>)
        clear_prod_caches ==
            add_tasks(
                ensure_job(ensure_stage(deploy_prod, "CLEAR_PROD_CACHES_STAGE_NAME"),
                           "CLEAR_PROD_CACHES_STAGE_NAME", "CLEAR_PROD_CACHES_JOB_NAME"),
                "CLEAR_PROD_CACHES_STAGE_NAME", "CLEAR_PROD_CACHES_JOB_NAME",
                <<package_install, bash_task,
                  TaskBuilder("generate_flush_drupal_caches", "prod", "passed"),
                  TaskBuilder("generate_clear_varnish_cache", "prod", "passed")>>)
    IN  IF "mktg_repository_version" \notin config
        THEN [g |-> SetPipeline(g1, p1), pc |-> "KeyError"]
        ELSE IF ~({"github_private_key", "acquia_remote_url", "acquia_username",
                   "acquia_password", "acquia_github_key"} \subseteq config)
        THEN [g |-> SetPipeline(g1, p2), pc |-> "KeyError"]
        ELSE [g |-> SetPipeline(g1, clear_prod_caches), pc |-> "returned"]

-----------------------------------------------------------------------------
(* State machine *)

NoArgs ==
    [continuous_deployment_edps |-> <<>>, manual_deployment_edps |-> <<>>,
     has_migrations |-> FALSE, cd_pipeline_name |-> None, manual_pipeline_name |-> None]

NoLocals ==
    [entry |-> None, play |-> None, cd_pipeline_name |-> None,
     manual_pipeline_name |-> None, manual |-> FALSE, env_order |-> <<>>,
     pipeline_name |-> None]

ExplicitNames == {"release"}

\* A pipeline left in the group by an earlier installer run.
LegacyPipeline(name) ==
    [name |-> name, label |-> "${COUNT}", materials |-> <<GitMaterial("legacy")>>,
     stages |-> <<[name |-> "legacy_stage", manual |-> FALSE, jobs |-> <<>>],
                  [name |-> ROLLBACK_ASGS_STAGE_NAME, manual |-> FALSE,
                   jobs |-> <<>>]>>,
     variables |-> {"LEGACY"}, encrypted |-> {}]

InitGroups == {<<LegacyPipeline("stage-apros"), LegacyPipeline("other")>>}

\* The grants on the group before any builder runs, and the other groups of
\* the configuration.
LegacyPerms ==
    {[role |-> "legacy-admin", permission |-> "ADMINS"],
     [role |-> "legacy-operator", permission |-> "VIEW"]}

InitConfigurator ==
    [name |-> "apros",
     others |-> {[name |-> "mckinseyapros",
                  pipelines |-> <<LegacyPipeline("prod-apros")>>, perms |-> LegacyPerms],
                 [name |-> "edxapp",
                  pipelines |-> <<LegacyPipeline("edxapp")>>, perms |-> LegacyPerms]}]

NoLast == [call |-> StageCall(None, FALSE, NoLocation, None, None),
           repeated |-> FALSE, prev |-> NewPipeline(None), n |-> 0]

Init ==
    /\ group \in InitGroups
    /\ perms = LegacyPerms
    /\ pc = "idle"
    /\ args = NoArgs
    /\ locals = NoLocals
    /\ calls = <<>>
    /\ group0 = group
    /\ first = <<>>
    /\ runs = 0
    /\ last = NoLast
    /\ configurator = InitConfigurator
    /\ uploads = <<>>

Orders(S) == {s \in [1..Cardinality(S) -> S] : Range(s) = S}

\* generate_service_deployment_pipelines up to the naming of the continuous
\* pipeline: the at-least-one-EDP check, plays.pop() and cd_envs.pop().
Enter(a, entry) ==
    /\ args' = a
    /\ calls' = <<>>
    /\ IF plays_of(a) = {}
       THEN /\ pc' = "ValueError_no_edps"
            /\ locals' = [NoLocals EXCEPT !.entry = entry]
       ELSE \E play \in plays_of(a) :
            IF a.cd_pipeline_name # None
            THEN /\ pc' = "named"
                 /\ locals' = [NoLocals EXCEPT !.entry = entry, !.play = play,
                                               !.cd_pipeline_name = a.cd_pipeline_name]
            ELSE IF EnvsOf(a.continuous_deployment_edps) = {}
            THEN /\ pc' = "KeyError_cd_envs"
                 /\ locals' = [NoLocals EXCEPT !.entry = entry, !.play = play]
            ELSE \E environment \in EnvsOf(a.continuous_deployment_edps) :
                 /\ pc' = "named"
                 /\ locals' = [NoLocals EXCEPT
                                  !.entry = entry, !.play = play,
                                  !.cd_pipeline_name =
                                      ENVIRONMENT_PIPELINE_NAME_TPL(environment, play)]

Grant(role, permission) == [role |-> role, permission |-> permission]

\* the groups of the configuration: the one being built and the others
Groups(c, g, ps) == c.others \cup {[name |-> c.name, pipelines |-> g, perms |-> ps]}

GroupOf(groups, name) == CHOOSE x \in groups : x.name = name

\* GoCdConfigurator.ensure_removal_of_pipeline_group
ensure_removal_of_pipeline_group(groups, name) == {x \in groups : x.name # name}

\* GoCdConfigurator.ensure_pipeline_group: the group of that name, created
\* empty when absent
ensure_pipeline_group(groups, name) ==
    IF \E x \in groups : x.name = name THEN groups
    ELSE groups \cup {[name |-> name, pipelines |-> <<>>, perms |-> {}]}

\* authz.ensure_permissions: the roles are granted the permission on the group
ensure_permissions(groups, name, permission, roles) ==
    {IF x.name = name
     THEN [x EXCEPT !.perms = @ \cup {Grant(role, permission) : role \in roles}]
     ELSE x : x \in groups}

\* generate_service_pipeline_group, had the admin role been granted VIEW too
generate_service_pipeline_group_admin_view(groups, play) ==
    LET g1 == ensure_pipeline_group(ensure_removal_of_pipeline_group(groups, play), play)
        g2 == ensure_permissions(g1, play, "ADMINS", {play \o "-admin"})
        g3 == ensure_permissions(g2, play, "OPERATE", {play \o "-operator"})
    IN  ensure_permissions(g3, play, "VIEW", {play \o "-operator", play \o "-admin"})

\* generate_service_pipeline_group, had it not removed the existing group
generate_service_pipeline_group_kept(groups, play) ==
    LET g1 == ensure_pipeline_group(groups, play)
        g2 == ensure_permissions(g1, play, "ADMINS", {play \o "-admin"})
        g3 == ensure_permissions(g2, play, "OPERATE", {play \o "-operator"})
    IN  ensure_permissions(g3, play, "VIEW", {play \o "-operator"})

\* generate_service_pipeline_group: the group of the play replaced by a
\* fresh one with its role grants.
generate_service_pipeline_group(groups, play) ==
    LET g1 == ensure_pipeline_group(ensure_removal_of_pipeline_group(groups, play), play)
        admin_role == play \o "-admin"
        g2 == ensure_permissions(g1, play, "ADMINS", {admin_role})
        operator_role == play \o "-operator"
        g3 == ensure_permissions(g2, play, "OPERATE", {operator_role})
    IN  ensure_permissions(g3, play, "VIEW", {operator_role})

SingleArgs(has_migrations) ==
    [continuous_deployment_edps |-> <<STAGE_MCKA_APROS, STAGE_MCKA_EDXAPP>>,
     manual_deployment_edps |-> <<PROD_MCKA_APROS, PROD_MCKA_EDXAPP>>,
     has_migrations |-> has_migrations,
     cd_pipeline_name |-> None, manual_pipeline_name |-> None]

\* A call of generate_service_deployment_pipelines on the existing group.
Begin ==
    /\ pc = "idle"
    /\ \E edps \in SeqsUpTo(EDPS, MaxEdps),
          has_migrations \in BOOLEAN,
          cd_name \in ExplicitNames \cup {None},
          manual_name \in ExplicitNames \cup {None} :
          \E k \in 0..Len(edps) :
          Enter([continuous_deployment_edps |-> SubSeq(edps, 1, k),
                 manual_deployment_edps |-> SubSeq(edps, k + 1, Len(edps)),
                 has_migrations |-> has_migrations, cd_pipeline_name |-> cd_name,
                 manual_pipeline_name |-> manual_name], "direct")
    /\ group0' = group
    /\ UNCHANGED <<uploads, configurator, group, perms, first, runs, last>>

\* A call of generate_single_deployment_service_pipelines for a play.
BeginSingle ==
    /\ pc = "idle"
    /\ \E has_migrations \in BOOLEAN, play \in {"apros", "mckinseyapros"} :
          LET groups == generate_service_pipeline_group(
                            Groups(configurator, group, perms), play)
          IN  /\ group' = GroupOf(groups, play).pipelines
              /\ perms' = GroupOf(groups, play).perms
              /\ configurator' = [name |-> play, others |-> groups \ {GroupOf(groups, play)}]
              /\ Enter(SingleArgs(has_migrations), "single")
    /\ group0' = group'
    /\ UNCHANGED <<uploads, first, runs, last>>

FrameCD ==
    /\ pc = "named"
    /\ group' = frame_cd_pipeline(group, locals.cd_pipeline_name, args.has_migrations)
    /\ pc' = "cd_framed"
    /\ UNCHANGED <<uploads, configurator, perms, args, locals, calls, group0, first, runs, last>>

FrameManual ==
    /\ pc = "cd_framed"
    /\ IF args.manual_deployment_edps = <<>>
       THEN /\ pc' = "manual_framed"
            /\ UNCHANGED <<configurator, group, locals>>
       ELSE IF ambiguous_manual_envs(args)
       THEN /\ pc' = "ValueError_manual_envs"
            /\ UNCHANGED <<configurator, group, locals>>
       ELSE \E environment \in manual_envs(args) :
            LET name == IF args.manual_pipeline_name = None
                        THEN ENVIRONMENT_PIPELINE_NAME_TPL(environment, locals.play)
                        ELSE args.manual_pipeline_name
            IN  /\ group' = frame_manual_pipeline(group, locals.cd_pipeline_name, name,
                                                  args.has_migrations)
                /\ locals' = [locals EXCEPT !.manual = TRUE, !.manual_pipeline_name = name]
                /\ pc' = "manual_framed"
    /\ UNCHANGED <<uploads, configurator, perms, args, calls, group0, first, runs, last>>

EnsureMaterials ==
    /\ pc = "manual_framed"
    /\ group' = ensure_materials(group, args, locals)
    /\ pc' = "materials"
    /\ UNCHANGED <<uploads, configurator, perms, args, locals, calls, group0, first, runs, last>>

BuildAMIJobs ==
    /\ pc = "materials"
    /\ \E order \in Orders(EnvsOf(all_edps(args))) :
          /\ runs > 0 => order = locals.env_order
          /\ group' = build_into(group, cd_stages_attached(locals),
                                 build_ami_calls(args, locals, order))
          /\ calls' = calls \o build_ami_calls(args, locals, order)
          /\ pc' = IF Len(built_envs(args, order)) = Len(order)
                   THEN "built" ELSE "IndexError"
          /\ locals' = [locals EXCEPT !.env_order = order]
    /\ UNCHANGED <<uploads, configurator, perms, args, group0, first, runs, last>>

DeployJobs ==
    /\ pc = "built"
    /\ group' = build_into(
                    build_into(group, cd_stages_attached(locals),
                               cd_deploy_calls(args, locals)),
                    TRUE, manual_deploy_calls(args, locals))
    /\ calls' = calls \o cd_deploy_calls(args, locals) \o manual_deploy_calls(args, locals)
    /\ first' = IF runs = 0 THEN group' ELSE first
    /\ runs' = runs + 1
    /\ pc' = "done"
    /\ UNCHANGED <<uploads, configurator, perms, args, locals, group0, last>>

\* The same builder run again with the same arguments against the
\* configuration the previous run left.
Rerun ==
    /\ pc = "done"
    /\ runs = 1
    /\ group' = IF locals.entry = "single" THEN <<>> ELSE group
    /\ group0' = group'
    /\ locals' = [locals EXCEPT !.manual = FALSE, !.manual_pipeline_name = None]
    /\ calls' = <<>>
    /\ pc' = "named"
    /\ UNCHANGED <<uploads, configurator, perms, args, first, runs, last>>

\* A stage builder of stages.py applied to the pipeline "other" of the group.
ApplyStageBuilder ==
    /\ pc \in {"idle", "stages"}
    /\ IF pc = "idle" THEN TRUE ELSE last.n < MaxStageCalls
    /\ \E c \in StageCalls :
          /\ group' = SetPipeline(group, apply_stage_builder(c, PipelineOf(group, "other")))
          /\ last' = [call |-> c,
                      repeated |-> (pc = "stages" /\ last.call = c),
                      prev |-> PipelineOf(group, "other"),
                      n |-> IF pc = "idle" THEN 1 ELSE last.n + 1]
    /\ pc' = "stages"
    /\ locals' = [NoLocals EXCEPT !.entry = "stage_builder", !.pipeline_name = "other"]
    /\ UNCHANGED <<uploads, configurator, perms, args, calls, group0, first, runs>>

\* A task builder of tasks/private_releases.py applied to a job of the
\* pipeline "other".
ApplyTaskBuilder ==
    /\ pc \in {"idle", "tasks"}
    /\ IF pc = "idle" THEN TRUE ELSE last.n < MaxStageCalls
    /\ \E c \in TaskCalls :
          LET p == ensure_job(PipelineOf(group, "other"), "legacy_stage", "release_job")
          IN  /\ group' = SetPipeline(group,
                                      apply_task_builder(c, p, "legacy_stage", "release_job"))
              /\ last' = [call |-> c,
                          repeated |-> (pc = "tasks" /\ last.call = c),
                          prev |-> p,
                          n |-> IF pc = "idle" THEN 1 ELSE last.n + 1]
    /\ pc' = "tasks"
    /\ locals' = [NoLocals EXCEPT !.entry = "task_builder", !.pipeline_name = "other"]
    /\ UNCHANGED <<uploads, configurator, perms, args, calls, group0, first, runs>>

\* edxapp.rollback_asgs
RollbackAsgs ==
    /\ pc = "idle"
    /\ \E pipeline_name \in {"other", "rollback"} :
          /\ group' = rollback_asgs(group, pipeline_name, "stage-apros").g
          /\ pc' = rollback_asgs(group, pipeline_name, "stage-apros").pc
          /\ locals' = [NoLocals EXCEPT !.entry = "rollback_asgs",
                                        !.pipeline_name = pipeline_name]
    /\ group0' = group
    /\ UNCHANGED <<uploads, configurator, perms, args, calls, first, runs, last>>

\* config['edxapp_subapps'] of the callers of generate_migrate_stages
SubappLists == SeqsUpTo({"cms", "lms"}, MaxStageCalls)

\* edxapp.generate_migrate_stages applied to the pipeline "other"
MigrateStages ==
    /\ pc = "idle"
    /\ \E edxapp_subapps \in SubappLists :
          /\ group' = SetPipeline(group, generate_migrate_stages(PipelineOf(group, "other"),
                                                                 edxapp_subapps))
          /\ last' = [call |-> [builder |-> "generate_migrate_stages",
                                edxapp_subapps |-> edxapp_subapps],
                      repeated |-> FALSE,
                      prev |-> PipelineOf(group, "other"),
                      n |-> Len(edxapp_subapps)]
    /\ pc' = "returned"
    /\ locals' = [NoLocals EXCEPT !.entry = "migrate_stages", !.pipeline_name = "other"]
    /\ group0' = group
    /\ UNCHANGED <<uploads, configurator, perms, args, calls, first, runs>>

\* edxapp.manual_verification
ManualVerification ==
    /\ pc = "idle"
    /\ group' = manual_verification(group)
    /\ pc' = "returned"
    /\ locals' = [NoLocals EXCEPT
                      !.entry = "manual_verification",
                      !.pipeline_name = "manual_verification_edxapp_prod_early_ami_build"]
    /\ group0' = group
    /\ UNCHANGED <<uploads, configurator, perms, args, calls, first, runs, last>>

\* edxapp.build_migrate_deploy_subset_pipeline
SubsetPipeline ==
    /\ pc = "idle"
    /\ \E ami_artifact \in {NoLocation, SomeAmi}, auto_run \in BOOLEAN,
          stage_builders \in SeqsUpTo({StageCall("generate_run_migrations", FALSE,
                                                 NoLocation, None, "cms")}, 1) :
          LET r == build_migrate_deploy_subset_pipeline(
                       group, stage_builders, "other", ami_artifact, auto_run, <<>>)
          IN  /\ group' = r.g
              /\ pc' = r.pc
    /\ locals' = [NoLocals EXCEPT !.entry = "subset", !.pipeline_name = "other"]
    /\ group0' = group
    /\ UNCHANGED <<uploads, configurator, perms, args, calls, first, runs, last>>

\* install_pipeline of cd_programs_multistage.py
InstallPrograms ==
    /\ pc = "idle"
    /\ group' = install_pipeline(group).g
    /\ pc' = install_pipeline(group).pc
    /\ uploads' = uploads \o install_pipeline(group).saved
    /\ locals' = [NoLocals EXCEPT !.entry = "programs",
                                  !.pipeline_name = "loadtest-multistage-edx-programs-cd"]
    /\ group0' = group
    /\ UNCHANGED <<configurator, perms, args, calls, first, runs, last>>

\* deploy_marketing_site.install_pipelines, with a configuration that has
\* every key or lacks one
InstallMarketing ==
    /\ pc = "idle"
    /\ \E missing \in {None, "mktg_repository_version", "acquia_password"} :
          LET config == {"mktg_repository_version", "github_private_key",
                         "acquia_remote_url", "acquia_username", "acquia_password",
                         "acquia_github_key"} \ {missing}
          IN  /\ group' = install_pipelines(group, config).g
              /\ pc' = install_pipelines(group, config).pc
    /\ locals' = [NoLocals EXCEPT !.entry = "marketing",
                                  !.pipeline_name = "DEPLOY_MARKETING_PIPELINE_NAME"]
    /\ group0' = group
    /\ UNCHANGED <<uploads, configurator, perms, args, calls, first, runs, last>>

\* deploy_gomatic_pipelines.install_pipeline, with a configuration that has
\* every key or lacks one
InstallGomatic ==
    /\ pc = "idle"
    /\ \E config \in Configs, pipeline_name \in {"other", "deploy_gomatic"} :
          LET run == deploy_gomatic_install_pipeline(group, config, pipeline_name)
          IN  /\ group' = run.g
              /\ pc' = run.pc
              /\ uploads' = uploads \o run.saved
              /\ locals' = [NoLocals EXCEPT !.entry = "deploy_gomatic",
                                            !.pipeline_name = pipeline_name]
              /\ last' = [NoLast EXCEPT !.call = [builder |-> "install_pipeline",
                                                  config |-> config]]
    /\ group0' = group
    /\ UNCHANGED <<configurator, perms, args, calls, first, runs>>

Next ==
    \/ ApplyStageBuilder
    \/ ApplyTaskBuilder
    \/ RollbackAsgs
    \/ ManualVerification
    \/ MigrateStages
    \/ InstallGomatic
    \/ InstallMarketing
    \/ SubsetPipeline
    \/ InstallPrograms
    \/ Begin
    \/ BeginSingle
    \/ FrameCD
    \/ FrameManual
    \/ EnsureMaterials
    \/ BuildAMIJobs
    \/ DeployJobs
    \/ Rerun

Spec == Init /\ [][Next]_vars

-----------------------------------------------------------------------------
(* Properties *)

InApros == locals.entry \in {"direct", "single"}

Framed == InApros /\ pc \in {"cd_framed", "ValueError_manual_envs", "manual_framed",
                             "materials", "built", "IndexError", "done"}

cd_pipeline == PipelineOf(group, locals.cd_pipeline_name)

manual_pipeline == PipelineOf(group, locals.manual_pipeline_name)

RollbackStageNames == {ROLLBACK_ASGS_STAGE_NAME, ROLLBACK_MIGRATIONS_STAGE_NAME}

RollbacksGated(p) ==
    \A i \in 1..Len(p.stages) : p.stages[i].name \in RollbackStageNames => p.stages[i].manual

PipelineMaterialsOf(p) == SelectSeq(p.materials, LAMBDA m : m.kind = "pipeline")

\* C1: generate_service_deployment_pipelines called with no EDP in either list
\* ends in the ValueError "needs at least one EDP to deploy" with the pipeline
\* group as it was before the call, and that error is raised for no other input.
C1_EmptyEdpsRejected ==
    /\ (InApros /\ all_edps(args) = <<>>) => (pc = "ValueError_no_edps" /\ group = group0)
    /\ pc = "ValueError_no_edps" => (InApros /\ all_edps(args) = <<>>)

C1_Witness ==
    /\ pc = "ValueError_no_edps"
    /\ args.continuous_deployment_edps = <<>> /\ args.manual_deployment_edps = <<>>
    /\ group = group0 /\ group # <<>>

\* C2: a call whose manual EDPs span two or more environments and that gives
\* no manual_pipeline_name ends only in the ValueError about manual
\* environments (never in another error, never in success); with a
\* manual_pipeline_name that ValueError is never raised.
C2_ManualEnvsRejected ==
    /\ (InApros /\ Cardinality(manual_envs(args)) >= 2 /\ args.manual_pipeline_name = None)
           => pc \in {"named", "cd_framed", "ValueError_manual_envs"}
    /\ (InApros /\ args.manual_pipeline_name # None) => pc # "ValueError_manual_envs"

\* C3: every rollback_asgs and rollback_migrations stage of a pipeline framed
\* by _generate_deployment_stages (continuous or manual, with or without
\* migrations), of a pipeline generate_rollback_asg_stage was just applied to,
\* and of the pipeline edxapp.rollback_asgs built, requires manual approval.
C3_RollbackStagesManual ==
    /\ Framed => RollbacksGated(cd_pipeline)
    /\ (Framed /\ locals.manual) => RollbacksGated(manual_pipeline)
    /\ (pc = "stages" /\ last.call.builder = "generate_rollback_asg_stage")
           => /\ HasName(PipelineOf(group, "other").stages, ROLLBACK_ASGS_STAGE_NAME)
              /\ RollbacksGated(PipelineOf(group, "other"))
    /\ locals.entry = "rollback_asgs"
           => /\ HasName(PipelineOf(group, locals.pipeline_name).stages,
                         ROLLBACK_ASGS_STAGE_NAME)
              /\ RollbacksGated(PipelineOf(group, locals.pipeline_name))

C3_Witness ==
    /\ pc = "done" /\ locals.manual /\ args.has_migrations
    /\ locals.manual_pipeline_name # locals.cd_pipeline_name
    /\ HasName(cd_pipeline.stages, ROLLBACK_MIGRATIONS_STAGE_NAME)
    /\ HasName(manual_pipeline.stages, ROLLBACK_ASGS_STAGE_NAME)

\* C4: the call generate_single_deployment_service_pipelines makes, with the
\* four MCKA EDPs and no explicit names, leaves exactly two pipelines, named
\* stage-apros and prod-apros.
C4_NamesFromApros ==
    (locals.entry = "single" /\ pc = "done")
        => /\ Len(group) = 2
           /\ {group[i].name : i \in 1..Len(group)} = {"stage-apros", "prod-apros"}

\* C5: once the manual pipeline is framed it has exactly one pipeline material,
\* naming the continuous pipeline and its build_ami stage, which that pipeline
\* has; its label template is ${<continuous pipeline name>}; and the
\* continuous pipeline has no pipeline material.
C5_ManualChainedToBuild ==
    (InApros /\ pc = "done" /\ locals.manual)
        => /\ PipelineMaterialsOf(manual_pipeline)
                  = <<PipelineMaterial(locals.cd_pipeline_name, BUILD_AMI_STAGE_NAME,
                                       locals.cd_pipeline_name)>>
           /\ HasName(cd_pipeline.stages, BUILD_AMI_STAGE_NAME)
           /\ manual_pipeline.label = "${" \o locals.cd_pipeline_name \o "}"
           /\ PipelineMaterialsOf(cd_pipeline) = <<>>

IsMigrationLocation(location) == location.file_name = MIGRATION_OUTPUT_DIR_NAME

MigrationCalls(pipeline_name, edp, sub_app) ==
    SelectSeq(calls, LAMBDA c : /\ c.builder = "generate_rollback_migrations"
                                /\ c.pipeline = pipeline_name
                                /\ c.edp = edp /\ c.sub_app = sub_app
                                /\ IsMigrationLocation(c.location))

JobSkeleton(job) == [name |-> job.name, artifacts |-> job.artifacts]

StageSkeleton(stage) ==
    [name |-> stage.name, manual |-> stage.manual,
     jobs |-> [i \in 1..Len(stage.jobs) |-> JobSkeleton(stage.jobs[i])]]

\* A pipeline without its tasks
Skeleton(p) ==
    [name |-> p.name, label |-> p.label, materials |-> p.materials,
     variables |-> p.variables, encrypted |-> p.encrypted,
     stages |-> [i \in 1..Len(p.stages) |-> StageSkeleton(p.stages[i])]]

IsPrefix(s, t) == Len(s) <= Len(t) /\ SubSeq(t, 1, Len(s)) = s

\* the tasks of a job, none when the stage or the job is absent
TasksOf(p, stage, job) ==
    IF HasName(p.stages, stage) /\ HasName(StageOf(p, stage).jobs, job)
    THEN StageOf(p, stage).jobs[IndexOf(StageOf(p, stage).jobs, job)].tasks
    ELSE <<>>

TasksGrow(before, after) ==
    \A i \in 1..Len(before.stages) :
        \A j \in 1..Len(before.stages[i].jobs) :
            IsPrefix(before.stages[i].jobs[j].tasks,
                     TasksOf(after, before.stages[i].name, before.stages[i].jobs[j].name))

Repeated == pc = "stages" /\ last.repeated

\* C7 as stated: a second run of the same builder leaves the tree the first
\* run left, for the pipeline builders and for a stage builder of stages.py
\* applied twice to the same pipeline (tasks included).
C7_SecondRunChangesNothing ==
    /\ (InApros /\ pc = "done" /\ runs = 2) => group = first
    /\ Repeated => PipelineOf(group, "other") = last.prev

\* C7: a second run of generate_service_deployment_pipelines or
\* generate_single_deployment_service_pipelines with the same arguments leaves
\* the group the first run left; a stage builder of stages.py applied a second
\* time leaves the pipeline's materials, variables, stages, gates, jobs and
\* artifacts as they were, keeps the tasks that were there and adds its tasks
\* once more.
C7_SecondRunKeepsSkeleton ==
    /\ (InApros /\ pc = "done" /\ runs = 2) => group = first
    /\ Repeated => /\ Skeleton(PipelineOf(group, "other")) = Skeleton(last.prev)
                   /\ TasksGrow(last.prev, PipelineOf(group, "other"))
                   /\ PipelineOf(group, "other") # last.prev

C7_Witness ==
    /\ Repeated
    /\ last.call.builder = "generate_armed_stage"
    /\ Len(TasksOf(PipelineOf(group, "other"), ARMED_STAGE_NAME, ARMED_JOB_NAME)) = 2
    /\ Len(TasksOf(last.prev, ARMED_STAGE_NAME, ARMED_JOB_NAME)) = 1

\* C8: a finished call with manual EDPs leaves two pipelines of different
\* names: the continuous pipeline still has its build_ami stage and the manual
\* pipeline's pipeline material does not name the manual pipeline.
C8_TwoDistinctPipelines ==
    (InApros /\ pc = "done" /\ args.manual_deployment_edps # <<>>)
        => /\ locals.manual_pipeline_name # locals.cd_pipeline_name
           /\ HasName(cd_pipeline.stages, BUILD_AMI_STAGE_NAME)
           /\ \A i \in 1..Len(manual_pipeline.materials) :
                  manual_pipeline.materials[i].pipeline # locals.manual_pipeline_name

IsCleanup(stage) ==
    /\ stage.name = TERMINATE_INSTANCE_STAGE_NAME
    /\ \E j \in 1..Len(stage.jobs) :
          \E k \in 1..Len(stage.jobs[j].tasks) : stage.jobs[j].tasks[k].runif = "any"

LaunchPaired(p) ==
    \A i \in 1..Len(p.stages) :
        p.stages[i].name = LAUNCH_INSTANCE_STAGE_NAME
            => \E j \in (i + 1)..Len(p.stages) : IsCleanup(p.stages[j])

\* C9: in the pipeline build_migrate_deploy_subset_pipeline or the
\* cd_programs_multistage installer has been building, a launch-instance stage
\* is followed later by a terminate-instance stage whose cleanup task runs
\* with run-if any.
C9_LaunchPairedWithTerminate ==
    locals.entry \in {"subset", "programs"}
        => LaunchPaired(PipelineOf(group, locals.pipeline_name))

DeployTasks(p) == TasksOf(p, DEPLOY_AMI_STAGE_NAME, DEPLOY_AMI_JOB_NAME)

\* the tasks the last generate_deploy_ami call added to the deploy job
AddedDeployTasks ==
    SubSeq(DeployTasks(PipelineOf(group, "other")), Len(DeployTasks(last.prev)) + 1,
           Len(DeployTasks(PipelineOf(group, "other"))))

Follows(command, flag, value) ==
    \E i \in 1..(Len(command) - 1) : command[i] = flag /\ command[i + 1] = value

Flags(command, flag) == {i \in 1..Len(command) : command[i] = flag}

Deployed == pc = "stages" /\ last.call.builder = "generate_deploy_ami"

\* C10: after generate_deploy_ami the deploy job declares the artifact
\* ARTIFACT_PATH/DEPLOY_AMI_OUT_FILENAME and the deploy command, the last task
\* the call added, passes it as --out_file; given an upstream artifact the
\* command has --config-file and no --ami_id and a fetch task for that
\* artifact precedes it; given none it has --ami_id $AMI_ID and no
\* --config-file, no fetch task was added and AMI_ID is a pipeline variable.
C10_DeployAmiOutFileAndOneSource ==
    Deployed =>
        LET p == PipelineOf(group, "other")
            added == AddedDeployTasks
            command == added[Len(added)].command
            fetches == {i \in 1..(Len(added) - 1) : added[i].type = "fetch"}
        IN  /\ added # <<>>
            /\ DeployArtifactPath
                   \in StageOf(p, DEPLOY_AMI_STAGE_NAME).jobs[
                           IndexOf(StageOf(p, DEPLOY_AMI_STAGE_NAME).jobs,
                                   DEPLOY_AMI_JOB_NAME)].artifacts
            /\ Follows(command, "--out_file", "../" \o DeployArtifactPath)
            /\ Cardinality(Flags(command, "--config-file"))
                   + Cardinality(Flags(command, "--ami_id")) = 1
            /\ IF last.call.upstream # NoLocation
               THEN /\ Follows(command, "--config-file", last.call.upstream.file_name)
                    /\ \E i \in fetches : added[i].src = last.call.upstream
               ELSE /\ Follows(command, "--ami_id", "$AMI_ID")
                    /\ fetches = {}
                    /\ "AMI_ID" \in p.variables

C10_Witness ==
    /\ Deployed /\ last.n = 2
    /\ last.call.upstream # NoLocation
    /\ Len(DeployTasks(last.prev)) > 0
    /\ \E i \in 1..Len(AddedDeployTasks) : AddedDeployTasks[i].type = "fetch"

CallsOf(builder) == SelectSeq(calls, LAMBDA c : c.builder = builder)

\* the jobs of a stage of a pipeline, none when the stage is absent
JobsOf(p, stage) == IF HasName(p.stages, stage) THEN StageOf(p, stage).jobs ELSE <<>>

\* the pipeline P of a loop pass deploys the EDP: continuous or manual
Deploys(pipeline_name, edp) ==
    \/ /\ pipeline_name = locals.cd_pipeline_name
       /\ edp \in Range(args.continuous_deployment_edps)
    \/ /\ locals.manual /\ pipeline_name = locals.manual_pipeline_name
       /\ edp \in Range(args.manual_deployment_edps)

\* C11: the rollback-ASGs job builder is handed the deployment-result
\* artifact of the deploy stage of its own pipeline and of the deploy job of
\* its own EDP, the deploy job builder is handed the AMI artifact of the
\* continuous pipeline's build stage (for manual EDPs too), and the tasks in
\* the deploy and rollback_asgs stages of the tree fetch from those places.
C11_RollbackConsumesOwnDeployResult ==
    InApros =>
        /\ \A i \in 1..Len(calls) :
              /\ calls[i].builder = "generate_rollback_asgs"
                     => /\ Deploys(calls[i].pipeline, calls[i].edp)
                        /\ calls[i].location
                               = ArtifactLocation(calls[i].pipeline, DEPLOY_AMI_STAGE_NAME,
                                                  DEPLOY_AMI_JOB_NAME_TPL(calls[i].edp),
                                                  DEPLOY_AMI_OUT_FILENAME, FALSE)
              /\ calls[i].builder = "generate_deploy_ami"
                     => /\ Deploys(calls[i].pipeline, calls[i].edp)
                        /\ calls[i].ami_location.pipeline = locals.cd_pipeline_name
                        /\ calls[i].ami_location.stage = BUILD_AMI_STAGE_NAME
        /\ pc = "done" =>
              \A n \in {locals.cd_pipeline_name} \cup
                       (IF locals.manual THEN {locals.manual_pipeline_name} ELSE {}) :
                  /\ \A j \in Range(JobsOf(PipelineOf(group, n), ROLLBACK_ASGS_STAGE_NAME)) :
                        \A k \in 1..Len(j.tasks) :
                            /\ j.tasks[k].src.pipeline = n
                            /\ j.tasks[k].src.stage = DEPLOY_AMI_STAGE_NAME
                  /\ \A j \in Range(JobsOf(PipelineOf(group, n), DEPLOY_AMI_STAGE_NAME)) :
                        \A k \in 1..Len(j.tasks) :
                            /\ j.tasks[k].src.pipeline = locals.cd_pipeline_name
                            /\ j.tasks[k].src.stage = BUILD_AMI_STAGE_NAME

C11_Witness ==
    /\ InApros /\ pc = "done" /\ locals.manual
    /\ locals.manual_pipeline_name # locals.cd_pipeline_name
    /\ \E i \in 1..Len(calls) :
          /\ calls[i].builder = "generate_rollback_asgs"
          /\ calls[i].pipeline = locals.manual_pipeline_name
          /\ calls[i].location.pipeline = locals.manual_pipeline_name
    /\ JobsOf(manual_pipeline, ROLLBACK_ASGS_STAGE_NAME) # <<>>
    /\ JobsOf(cd_pipeline, ROLLBACK_ASGS_STAGE_NAME) # <<>>

\* the location names a pipeline of the group and a stage that pipeline has
Defined(location) ==
    /\ HasName(group, location.pipeline)
    /\ HasName(PipelineOf(group, location.pipeline).stages, location.stage)

\* C12: when generate_service_deployment_pipelines has returned, every
\* ArtifactLocation it constructed (AMI, deployment-result, migration-output)
\* names a pipeline of the group and a stage that pipeline has.
C12_LocationsPointToDefinedStages ==
    (InApros /\ pc = "done")
        => \A i \in 1..Len(calls) :
              /\ calls[i].location # NoLocation => Defined(calls[i].location)
              /\ calls[i].ami_location # NoLocation => Defined(calls[i].ami_location)

Returned == InApros /\ pc \in {"done", "IndexError"}

\* C13: when generate_service_deployment_pipelines is over, it has called
\* generate_build_ami once per distinct environment of all the EDPs, and
\* generate_deploy_ami and generate_rollback_asgs (and, with has_migrations,
\* generate_rollback_migrations) once per EDP and sub-application.
C13_JobBuilderCallCounts ==
    Returned =>
        /\ Len(CallsOf("generate_build_ami")) = Cardinality(EnvsOf(all_edps(args)))
        /\ \A i \in 1..Len(CallsOf("generate_build_ami")) :
              \A j \in 1..Len(CallsOf("generate_build_ami")) :
                  i # j => CallsOf("generate_build_ami")[i].edp.environment
                               # CallsOf("generate_build_ami")[j].edp.environment
        /\ Len(CallsOf("generate_deploy_ami")) = Len(all_edps(args)) * Len(MCKA_SUBAPPS)
        /\ Len(CallsOf("generate_rollback_asgs")) = Len(all_edps(args)) * Len(MCKA_SUBAPPS)
        /\ Len(CallsOf("generate_rollback_migrations"))
               = IF args.has_migrations THEN Len(all_edps(args)) * Len(MCKA_SUBAPPS) ELSE 0

GroupBuilt == locals.entry = "single"

\* C14: after generate_service_pipeline_group the group named after the play
\* has exactly three grants: ADMINS to the one role <play>-admin, OPERATE and
\* VIEW to the one role <play>-operator.
C14_GroupGrants ==
    GroupBuilt =>
        /\ perms = {Grant(configurator.name \o "-admin", "ADMINS"),
                    Grant(configurator.name \o "-operator", "OPERATE"),
                    Grant(configurator.name \o "-operator", "VIEW")}
        /\ Cardinality({x.role : x \in perms}) = 2
        /\ \A x \in configurator.others : x.name # configurator.name

C14_Witness ==
    /\ GroupBuilt /\ pc = "named" /\ configurator.name = "mckinseyapros"
    /\ Grant("mckinseyapros-admin", "ADMINS") \in perms
    /\ Cardinality(perms) = 3

\* the groups of the configuration before any builder ran
InitialGroups == Groups(InitConfigurator, CHOOSE g \in InitGroups : TRUE, LegacyPerms)

\* C15: generate_service_pipeline_group replaces the existing group of the
\* play's name: right after it the new group is empty, it never holds a
\* pipeline the old group of that name held, it carries none of the old
\* group's grants, and the groups of other names are as they were.
C15_GroupReplaced ==
    GroupBuilt =>
        /\ pc \in {"named", "ValueError_no_edps", "KeyError_cd_envs"} => group = <<>>
        /\ \A x \in InitialGroups :
              IF x.name = configurator.name
              THEN /\ \A i \in 1..Len(group) : group[i] \notin Range(x.pipelines)
                   /\ perms \cap x.perms = {}
              ELSE x \in configurator.others
        /\ \A x \in configurator.others : x \in InitialGroups

C15_Witness ==
    /\ GroupBuilt /\ pc = "done" /\ configurator.name = "apros"
    /\ HasName(group, "stage-apros")
    /\ \E x \in InitialGroups : x.name = "apros" /\ HasName(x.pipelines, "stage-apros")
    /\ Cardinality(configurator.others) = 2

ReleaseTasks(p) == TasksOf(p, "legacy_stage", "release_job")

TaskBuilt == pc = "tasks"

\* C16 as stated: each call of a task builder of private_releases.py makes
\* the job's task list exactly one task longer.
C16_OneTaskPerCall ==
    TaskBuilt => Len(ReleaseTasks(PipelineOf(group, "other")))
                     = Len(ReleaseTasks(last.prev)) + 1

\* C16: each call of a task builder of private_releases.py keeps the tasks
\* the job had, adds the target-directory task, and then its tubular task
\* unless an equal task is in the job already: two tasks on the first call,
\* one when the same call is repeated, and the tubular task never twice.
C16_TargetDirectoryThenTubularTask ==
    TaskBuilt =>
        LET before == ReleaseTasks(last.prev)
            after == ReleaseTasks(PipelineOf(group, "other"))
            tubular == {i \in 1..Len(after) : after[i].type = "exec"}
        IN  /\ IsPrefix(before, after)
            /\ Len(after) > Len(before)
            /\ after[Len(before) + 1].type = "generate_target_directory"
            /\ Len(after) - Len(before) \in {1, 2}
            /\ last.repeated => Len(after) - Len(before) = 1
            /\ last.n = 1 => Len(after) - Len(before) = 2
            /\ Len(after) - Len(before) = 2
                   => after[Len(after)].type = "exec" /\ after[Len(after)] \notin Range(before)
            /\ \A i \in tubular : \A j \in tubular : after[i] = after[j] => i = j

C16_Witness ==
    /\ TaskBuilt /\ last.repeated
    /\ last.call.builder = "generate_public_private_merge"
    /\ Len(ReleaseTasks(PipelineOf(group, "other"))) = 3

IsEcho(task) ==
    /\ task.type = "exec" /\ Len(task.command) = 3
    /\ task.command[1] = "/bin/bash" /\ task.command[2] = "-c"

\* the stage of that name is ungated and holds the one job ARMED_JOB_NAME,
\* whose tasks are echo commands
Armed(p, armed) ==
    /\ HasName(p.stages, armed)
    /\ ~StageOf(p, armed).manual
    /\ Len(StageOf(p, armed).jobs) = 1
    /\ StageOf(p, armed).jobs[1].name = ARMED_JOB_NAME
    /\ StageOf(p, armed).jobs[1].tasks # <<>>
    /\ \A k \in 1..Len(StageOf(p, armed).jobs[1].tasks) :
          IsEcho(StageOf(p, armed).jobs[1].tasks[k])

\* the stage right after the armed stage exists and is manual-approval gated
ArmedThenGate(p, armed) ==
    /\ Armed(p, armed)
    /\ IndexOf(p.stages, armed) < Len(p.stages)
    /\ p.stages[IndexOf(p.stages, armed) + 1].manual

\* C17: the stage generate_armed_stage makes is not manual-approval gated and
\* holds the single echo job; in the manual deployment pipeline, in the
\* manual_verification pipeline and in the edxapp.rollback_asgs pipeline the
\* stage right after the armed stage is manual-approval gated.
C17_ArmedThenManualGate ==
    /\ (pc = "stages" /\ last.call.builder = "generate_armed_stage")
           => Armed(PipelineOf(group, "other"), ARMED_STAGE_NAME)
    /\ (InApros /\ locals.manual) => ArmedThenGate(manual_pipeline, ARMED_STAGE_NAME)
    /\ locals.entry = "manual_verification"
           => ArmedThenGate(PipelineOf(group, locals.pipeline_name),
                            INITIAL_VERIFICATION_STAGE_NAME)
    /\ locals.entry = "rollback_asgs"
           => ArmedThenGate(PipelineOf(group, locals.pipeline_name), ARMED_JOB_NAME)

C17_Witness ==
    /\ InApros /\ pc = "done" /\ locals.manual
    /\ manual_pipeline.stages[1].name = ARMED_STAGE_NAME
    /\ manual_pipeline.stages[2].name = DEPLOY_AMI_STAGE_NAME
    /\ manual_pipeline.stages[2].manual /\ ~manual_pipeline.stages[1].manual

\* the run-migrations tasks of the stage, one per generate_run_migrations call
MigrationRuns(p, stage) ==
    LET tasks == StageOf(p, stage).jobs[IndexOf(StageOf(p, stage).jobs,
                                                APPLY_MIGRATIONS_JOB)].tasks
    IN  {k \in 1..Len(tasks) : tasks[k].type = "generate_run_migrations"}

Migrated == pc = "returned" /\ locals.entry = "migrate_stages"

\* C18: generate_migrate_stages runs generate_run_migrations once per entry of
\* config['edxapp_subapps'], in list order; the stage of a sub-application is
\* named APPLY_MIGRATIONS_STAGE + "_" + sub_app (the bare name when there is
\* none), so the stages it adds are as many as the distinct sub-applications.
C18_OneMigrationStagePerSubapp ==
    /\ Migrated =>
          LET p == PipelineOf(group, "other")
              subs == last.call.edxapp_subapps
              new == SelectSeq(p.stages, LAMBDA st : st.name \notin Range(StageNames(last.prev)))
          IN  /\ {new[i].name : i \in 1..Len(new)}
                     = {APPLY_MIGRATIONS_STAGE \o "_" \o sub : sub \in Range(subs)}
              /\ Len(new) = Cardinality(Range(subs))
              /\ \A sub \in Range(subs) :
                    Cardinality(MigrationRuns(p, APPLY_MIGRATIONS_STAGE \o "_" \o sub))
                        = Cardinality({k \in 1..Len(subs) : subs[k] = sub})
              /\ \A i, j \in 1..Len(subs) :
                    (i < j /\ subs[i] # subs[j] /\ \A k \in 1..(j - 1) : subs[k] = subs[i])
                        => IndexOf(p.stages, APPLY_MIGRATIONS_STAGE \o "_" \o subs[i])
                               < IndexOf(p.stages, APPLY_MIGRATIONS_STAGE \o "_" \o subs[j])
    /\ (pc = "stages" /\ last.call.builder = "generate_run_migrations"
            /\ last.call.sub_app = None)
           => /\ HasName(PipelineOf(group, "other").stages, APPLY_MIGRATIONS_STAGE)
              /\ MigrationRuns(PipelineOf(group, "other"), APPLY_MIGRATIONS_STAGE) # {}

C18_Witness ==
    /\ Migrated
    /\ last.call.edxapp_subapps = <<"cms", "lms">>
    /\ HasName(PipelineOf(group, "other").stages, APPLY_MIGRATIONS_STAGE \o "_cms")
    /\ HasName(PipelineOf(group, "other").stages, APPLY_MIGRATIONS_STAGE \o "_lms")

\* Run-if conditions as the CI server evaluates them: the tasks of a job run in
\* order, a task runs when its condition matches the job's state so far, and a
\* task that runs and fails makes the job failed. fails: the tasks that fail
\* when they run.
RECURSIVE JobFailed(_, _, _)
RECURSIVE Runs(_, _, _)
JobFailed(tasks, k, fails) ==
    /\ k > 0
    /\ \/ JobFailed(tasks, k - 1, fails)
       \/ (k \in fails /\ Runs(tasks, k, fails))

Runs(tasks, k, fails) ==
    \/ tasks[k].runif = "any"
    \/ tasks[k].runif = "failed" /\ JobFailed(tasks, k - 1, fails)
    \/ tasks[k].runif = "passed" /\ ~JobFailed(tasks, k - 1, fails)

ValidationTasks ==
    StageOf(PipelineOf(group, "other"), "Validation").jobs[1].tasks

IsValidate(task) ==
    task.type = "exec" /\ task.command = <<"/usr/bin/python", "scripts/validate_edp.py">>

IsNotify(task) ==
    task.type = "exec" /\ task.command = <<"/bin/bash", "-c", "scripts/submit_hipchat_msg.py">>

Validated == pc = "stages" /\ last.call.builder = "generate_edp_validation"

\* C19 as stated: in the stage made by generate_edp_validation the validation
\* task is the first task of the job, under the default run condition, the
\* notification task follows it with run-if "failed" and runs only when the
\* validation task ran and failed, and the stage is manual-approval gated only
\* when manual_approval is true.
C19_ValidationFirstNotifyOnlyOnMismatch ==
    Validated =>
        /\ IsValidate(ValidationTasks[1]) /\ ValidationTasks[1].runif = "passed"
        /\ \A k \in 2..Len(ValidationTasks) :
              IsNotify(ValidationTasks[k]) =>
                  /\ ValidationTasks[k].runif = "failed"
                  /\ \A fails \in SUBSET (1..Len(ValidationTasks)) :
                        Runs(ValidationTasks, k, fails) =>
                            \E j \in 1..(k - 1) :
                                /\ IsValidate(ValidationTasks[j])
                                /\ j \in fails /\ Runs(ValidationTasks, j, fails)
        /\ StageOf(PipelineOf(group, "other"), "Validation").manual
               => last.call.manual_approval

\* C19, amended: each call of generate_edp_validation adds three tasks to the
\* job EDPValidation: the requirements install, then the validation task
\* under the default run condition, then the notification task with run-if
\* "failed". The notification runs when an earlier task of the job failed (the
\* validation or a requirements install), always when the validation before it
\* ran and failed, and never when no task failed. The call gates the stage
\* when manual_approval is true and leaves its approval alone otherwise.
C19_InstallValidateNotify ==
    Validated =>
        LET tasks == ValidationTasks
            before == JobsOf(last.prev, "Validation")
            old == IF before = <<>> THEN <<>> ELSE before[1].tasks
            n == Len(tasks)
        IN  /\ Len(StageOf(PipelineOf(group, "other"), "Validation").jobs) = 1
            /\ n = Len(old) + 3 /\ IsPrefix(old, tasks)
            /\ tasks[n - 2].type = "generate_requirements_install"
            /\ tasks[n - 2].runif = "passed"
            /\ IsValidate(tasks[n - 1]) /\ tasks[n - 1].runif = "passed"
            /\ IsNotify(tasks[n]) /\ tasks[n].runif = "failed"
            /\ \A fails \in SUBSET (1..n) :
                  /\ Runs(tasks, n, fails) => \E j \in 1..(n - 1) : j \in fails
                  /\ (n - 1 \in fails /\ Runs(tasks, n - 1, fails)) => Runs(tasks, n, fails)
                  /\ fails = {} => \A k \in 1..n : IsNotify(tasks[k]) => ~Runs(tasks, k, fails)
            /\ StageOf(PipelineOf(group, "other"), "Validation").manual
                   = (last.call.manual_approval
                          \/ (HasName(last.prev.stages, "Validation")
                                  /\ StageOf(last.prev, "Validation").manual))

C19_Witness ==
    /\ Validated /\ last.n = 1 /\ last.call.manual_approval
    /\ Len(ValidationTasks) = 3
    /\ StageOf(PipelineOf(group, "other"), "Validation").manual
    /\ Runs(ValidationTasks, 3, {1}) /\ ~Runs(ValidationTasks, 2, {1})

Installed == locals.entry \in {"programs", "deploy_gomatic"}

\* C20: an installer run that completes has invoked save_updated_config once,
\* as its last step, on the configuration with every pipeline, stage, job and
\* task mutation in it; a run that raised during generation has not invoked
\* it; and no run invokes it twice.
C20_UploadOnceAtTheEnd ==
    /\ Len(uploads) <= 1
    /\ (Installed /\ pc = "saved") => (Len(uploads) = 1 /\ uploads[1] = group)
    /\ (Installed /\ pc # "saved") => uploads = <<>>
    /\ (locals.entry = "deploy_gomatic" /\ pc = "saved") =>
          /\ HasName(group, locals.pipeline_name)
          /\ Len(JobsOf(PipelineOf(group, locals.pipeline_name),
                        "deploy_gomatic_stage")) = 1
          /\ Len(JobsOf(PipelineOf(group, locals.pipeline_name),
                        "deploy_gomatic_stage")[1].tasks) = 3
    /\ ~Installed => uploads = <<>>

C20_Witness ==
    /\ locals.entry = "deploy_gomatic" /\ pc = "saved"
    /\ Len(uploads) = 1 /\ uploads[1] = group
    /\ Len(PipelineOf(group, locals.pipeline_name).stages) = 1

\* a run that raised during generation: the pipeline is replaced in memory,
\* nothing is uploaded
C20_FailedRunWitness ==
    /\ locals.entry = "deploy_gomatic" /\ pc = "KeyError"
    /\ group # group0 /\ uploads = <<>>

\* the rollback stages _generate_deployment_stages frames after the deploy stage
RollbackStagesFramed ==
    <<ROLLBACK_ASGS_STAGE_NAME>>
    \o (IF args.has_migrations THEN <<ROLLBACK_MIGRATIONS_STAGE_NAME>> ELSE <<>>)

\* C21: once generate_service_deployment_pipelines has framed its pipelines,
\* the continuous pipeline's stages are build AMI, deploy AMI, rollback ASGs
\* and (with migrations only) rollback migrations, in that order, its deploy
\* stage ungated; the manual pipeline's stages are armed, deploy AMI (gated),
\* rollback ASGs and (with migrations only) rollback migrations, in that
\* order, with no build stage.
C21_StageOrder ==
    /\ Framed =>
          /\ StageNames(cd_pipeline)
                 = <<BUILD_AMI_STAGE_NAME, DEPLOY_AMI_STAGE_NAME>> \o RollbackStagesFramed
          /\ ~StageOf(cd_pipeline, DEPLOY_AMI_STAGE_NAME).manual
    /\ (Framed /\ locals.manual) =>
          /\ StageNames(manual_pipeline)
                 = <<ARMED_STAGE_NAME, DEPLOY_AMI_STAGE_NAME>> \o RollbackStagesFramed
          /\ StageOf(manual_pipeline, DEPLOY_AMI_STAGE_NAME).manual
          /\ ~HasName(manual_pipeline.stages, BUILD_AMI_STAGE_NAME)

\* C21 where the two pipelines have different names
C21_StageOrderOfDistinctPipelines ==
    (locals.manual => locals.manual_pipeline_name # locals.cd_pipeline_name)
        => C21_StageOrder

GitMaterialsOf(p) == {m \in Range(p.materials) : m.kind = "git"}

MaterialsEnsured == InApros /\ pc \in {"materials", "built", "IndexError", "done"}

\* C22: once the materials are ensured, the git materials of the continuous
\* pipeline are tubular, configuration, the secure and the internal material
\* of every supplied EDP's deployment, and the application material; those of
\* the manual pipeline, when there is one, are the same without the
\* application material.
C22_CommonMaterialsOnBothAppOnContinuous ==
    /\ MaterialsEnsured =>
          GitMaterialsOf(cd_pipeline) = Range(common_materials(args)) \cup {EDX_APROS}
    /\ (MaterialsEnsured /\ locals.manual) =>
          /\ GitMaterialsOf(manual_pipeline) = Range(common_materials(args))
          /\ EDX_APROS \notin Range(manual_pipeline.materials)

\* C22 where the two pipelines have different names
C22_MaterialsOfDistinctPipelines ==
    (locals.manual => locals.manual_pipeline_name # locals.cd_pipeline_name)
        => C22_CommonMaterialsOnBothAppOnContinuous

marketing_pipeline == PipelineOf(group, "DEPLOY_MARKETING_PIPELINE_NAME")

MarketingInstalled == locals.entry = "marketing" /\ pc = "returned"

\* the fetch tasks of the one job of the stage
FetchesOf(p, stage) ==
    SelectSeq(StageOf(p, stage).jobs[1].tasks, LAMBDA task : task.type = "fetch")

GatedStages(p) == {p.stages[i].name : i \in {k \in 1..Len(p.stages) : p.stages[k].manual}}

\* C23: the marketing-site pipeline's stages are, in order, fetch tags
\* (gated), push tag to Acquia, backup stage database, deploy to stage, clear
\* stage caches, backup prod database (gated), deploy to prod, clear prod
\* caches, no other stage being gated; so each environment's backup precedes
\* its deploy, a gated stage lies after the stage deployment and not after the
\* first prod stage, and both deploy jobs fetch the new-tag file from the
\* push-to-Acquia stage and job of this pipeline, which declares it as artifact.
C23_MarketingStageOrder ==
    MarketingInstalled =>
        LET p == marketing_pipeline
            at(stage) == IndexOf(p.stages, stage)
        IN  /\ StageNames(p)
                   = <<"FETCH_TAG_STAGE_NAME", "PUSH_TO_ACQUIA_STAGE_NAME",
                       "BACKUP_STAGE_DATABASE_STAGE_NAME", "DEPLOY_STAGE_STAGE_NAME",
                       "CLEAR_STAGE_CACHES_STAGE_NAME", "BACKUP_PROD_DATABASE_STAGE_NAME",
                       "DEPLOY_PROD_STAGE_NAME", "CLEAR_PROD_CACHES_STAGE_NAME">>
            /\ GatedStages(p) = {"FETCH_TAG_STAGE_NAME", "BACKUP_PROD_DATABASE_STAGE_NAME"}
            /\ at("BACKUP_STAGE_DATABASE_STAGE_NAME") < at("DEPLOY_STAGE_STAGE_NAME")
            /\ at("BACKUP_PROD_DATABASE_STAGE_NAME") < at("DEPLOY_PROD_STAGE_NAME")
            /\ \A i \in 1..Len(p.stages) :
                  p.stages[i].name \in {"BACKUP_PROD_DATABASE_STAGE_NAME",
                                        "DEPLOY_PROD_STAGE_NAME",
                                        "CLEAR_PROD_CACHES_STAGE_NAME"}
                      => \E k \in (at("DEPLOY_STAGE_STAGE_NAME") + 1)..i : p.stages[k].manual
            /\ FetchesOf(p, "DEPLOY_STAGE_STAGE_NAME")
                   = FetchesOf(p, "DEPLOY_PROD_STAGE_NAME")
            /\ Len(FetchesOf(p, "DEPLOY_STAGE_STAGE_NAME")) = 1
            /\ LET src == FetchesOf(p, "DEPLOY_STAGE_STAGE_NAME")[1].src
               IN  /\ src.pipeline = p.name
                   /\ src.stage = "PUSH_TO_ACQUIA_STAGE_NAME"
                   /\ HasName(StageOf(p, src.stage).jobs, src.job)
                   /\ ("target/" \o src.file_name) \in StageOf(p, src.stage).jobs[1].artifacts
                   /\ at(src.stage) < at("DEPLOY_STAGE_STAGE_NAME")

C23_Witness ==
    /\ MarketingInstalled
    /\ Len(marketing_pipeline.stages) = 8
    /\ marketing_pipeline.stages[6].manual
    /\ Len(FetchesOf(marketing_pipeline, "DEPLOY_PROD_STAGE_NAME")) = 1

PipelineNames(g) == {g[i].name : i \in 1..Len(g)}

NoJobs(p) == \A i \in 1..Len(p.stages) : p.stages[i].jobs = <<>>

\* every pipeline of the group but the continuous one is as it was on entry
OthersUntouched ==
    \A name \in PipelineNames(group) \ {locals.cd_pipeline_name} :
        /\ HasName(group0, name)
        /\ PipelineOf(group, name) = PipelineOf(group0, name)

\* C24: when generate_service_deployment_pipelines ends in the ValueError
\* about manual environments, the continuous pipeline has been replaced in
\* the group and framed with its build, deploy and rollback stages, no manual
\* pipeline has been created, and no material or job has been added to any
\* pipeline.
C24_ManualEnvsErrorNotAtomic ==
    pc = "ValueError_manual_envs" =>
        /\ PipelineNames(group) = PipelineNames(group0) \cup {locals.cd_pipeline_name}
        /\ StageNames(cd_pipeline)
               = <<BUILD_AMI_STAGE_NAME, DEPLOY_AMI_STAGE_NAME>> \o RollbackStagesFramed
        /\ cd_pipeline.materials = <<>> /\ NoJobs(cd_pipeline)
        /\ cd_pipeline.label = DEPLOYMENT_PIPELINE_LABEL_TPL(EDX_APROS)
        /\ ~locals.manual /\ locals.manual_pipeline_name = None
        /\ OthersUntouched
        /\ calls = <<>>

C24_Witness ==
    /\ pc = "ValueError_manual_envs"
    /\ HasName(group0, locals.cd_pipeline_name)
    /\ group # group0
    /\ Cardinality(manual_envs(args)) = 2
    /\ HasName(cd_pipeline.stages, BUILD_AMI_STAGE_NAME)

\* C25: a call with manual EDPs, no continuous EDP and no cd_pipeline_name
\* passes the at-least-one-EDP check and ends in the KeyError of
\* cd_envs.pop() on the empty set, with the group as it was on entry; that
\* error ends no other call.
C25_NoContinuousEdpsKeyError ==
    /\ (InApros /\ args.manual_deployment_edps # <<>>
            /\ args.continuous_deployment_edps = <<>> /\ args.cd_pipeline_name = None)
           => /\ pc = "KeyError_cd_envs"
              /\ plays_of(args) # {}
              /\ group = group0 /\ calls = <<>>
    /\ pc = "KeyError_cd_envs"
           => /\ InApros /\ args.manual_deployment_edps # <<>>
              /\ args.continuous_deployment_edps = <<>> /\ args.cd_pipeline_name = None

C25_Witness ==
    /\ pc = "KeyError_cd_envs"
    /\ Len(args.manual_deployment_edps) = 2 /\ args.continuous_deployment_edps = <<>>
    /\ group = group0 /\ group # <<>>

\* some environment among the supplied EDPs has exactly one EDP
LoneEdp == \E environment \in EnvsOf(all_edps(args)) : Len(ed_dict(args, environment)) = 1

Ended == pc \in {"ValueError_no_edps", "KeyError_cd_envs", "ValueError_manual_envs",
                 "IndexError", "done"}

\* the pipelines are created and have their materials; no deploy or rollback
\* job builder has been called and the deploy and rollback stages hold no job
BuiltNotDeployed ==
    /\ HasName(group, locals.cd_pipeline_name)
    /\ Range(common_materials(args)) \subseteq Range(cd_pipeline.materials)
    /\ locals.manual =>
          /\ HasName(group, locals.manual_pipeline_name)
          /\ Range(common_materials(args)) \subseteq Range(manual_pipeline.materials)
    /\ \A i \in 1..Len(calls) : calls[i].builder = "generate_build_ami"
    /\ \A name \in {locals.cd_pipeline_name}
                   \cup (IF locals.manual THEN {locals.manual_pipeline_name} ELSE {}) :
          \A stage \in {DEPLOY_AMI_STAGE_NAME, ROLLBACK_ASGS_STAGE_NAME,
                        ROLLBACK_MIGRATIONS_STAGE_NAME} :
              JobsOf(PipelineOf(group, name), stage) = <<>>

\* C26 as stated: a call completes only if every environment has at least
\* two EDPs, and a call with an environment of exactly one EDP ends in the
\* IndexError, after the pipelines were created and given their materials and
\* before any deploy or rollback job is added.
C26_LoneEdpEndsInIndexError ==
    /\ (InApros /\ pc = "done") => ~LoneEdp
    /\ (InApros /\ LoneEdp /\ Ended) => (pc = "IndexError" /\ BuiltNotDeployed)

\* C26, amended: a call completes only if every environment has at least two
\* EDPs. A call with an environment of exactly one EDP never completes: it
\* ends in the IndexError of the AMI-build step unless it has ended before
\* that step in the KeyError of cd_envs.pop() or in the ValueError about
\* manual environments. The IndexError is raised only for such a call, after
\* the pipelines were created and given their materials and before any deploy
\* or rollback job is added.
C26_LoneEdpNeverCompletes ==
    /\ (InApros /\ pc \in {"built", "done"}) => ~LoneEdp
    /\ (InApros /\ LoneEdp /\ Ended)
           => pc \in {"IndexError", "KeyError_cd_envs", "ValueError_manual_envs"}
    /\ (InApros /\ LoneEdp /\ Ended /\ args.cd_pipeline_name = None)
           => (pc = "KeyError_cd_envs") = (args.continuous_deployment_edps = <<>>)
    /\ (InApros /\ LoneEdp /\ Ended /\ pc # "KeyError_cd_envs")
           => (pc = "ValueError_manual_envs") = ambiguous_manual_envs(args)
    /\ pc = "IndexError" => (InApros /\ LoneEdp /\ BuiltNotDeployed)

C26_Witness ==
    /\ pc = "IndexError" /\ locals.manual
    /\ locals.manual_pipeline_name # locals.cd_pipeline_name
    /\ Len(all_edps(args)) = 3
    /\ calls # <<>>
    /\ EDX_APROS \in Range(cd_pipeline.materials)

ArmedAnywhere ==
    \E i \in 1..Len(group) : HasName(group[i].stages, ARMED_STAGE_NAME)

PipelineMaterialAnywhere ==
    \E i \in 1..Len(group) : PipelineMaterialsOf(group[i]) # <<>>

\* only the continuous pipeline was added to, or replaced in, the group
OnlyContinuousCreated ==
    /\ PipelineNames(group) = PipelineNames(group0) \cup {locals.cd_pipeline_name}
    /\ OthersUntouched

\* C27: a call with no manual EDP whose continuous EDPs satisfy the build
\* step runs to completion; it creates the continuous pipeline and no other,
\* leaves every other pipeline as it was, adds no pipeline material and no
\* armed stage anywhere, and calls the job builders on the continuous
\* pipeline only.
C27_NoManualEdpsOnePipeline ==
    (InApros /\ args.manual_deployment_edps = <<>> /\ args.continuous_deployment_edps # <<>>
        /\ ~LoneEdp)
        => /\ pc \in {"named", "cd_framed", "manual_framed", "materials", "built", "done"}
           /\ ~locals.manual /\ locals.manual_pipeline_name = None
           /\ pc # "named" =>
                 /\ OnlyContinuousCreated
                 /\ ~ArmedAnywhere /\ ~PipelineMaterialAnywhere
           /\ \A i \in 1..Len(calls) : calls[i].pipeline = locals.cd_pipeline_name
           /\ pc = "done" =>
                 Len(calls) = Cardinality(EnvsOf(all_edps(args)))
                                  + Len(args.continuous_deployment_edps) * Len(MCKA_SUBAPPS)
                                        * (IF args.has_migrations THEN 3 ELSE 2)

C27_Witness ==
    /\ InApros /\ pc = "done" /\ runs = 1
    /\ args.manual_deployment_edps = <<>> /\ Len(args.continuous_deployment_edps) = 2
    /\ Len(group) = Len(group0) + 1
    /\ ~ArmedAnywhere

\* the first EDP listed for the environment, continuous EDPs before manual ones
FirstEdpOf(a, environment) ==
    all_edps(a)[CHOOSE k \in 1..Len(all_edps(a)) :
                   /\ all_edps(a)[k].environment = environment
                   /\ \A j \in 1..(k - 1) : all_edps(a)[j].environment # environment]

Reordered(seq) == {[i \in 1..Len(seq) |-> seq[f[i]]] : f \in Permutations(1..Len(seq))}

\* the arguments with the EDPs of each list supplied in another order
Reorderings(a) ==
    {[a EXCEPT !.continuous_deployment_edps = c, !.manual_deployment_edps = m] :
        c \in Reordered(a.continuous_deployment_edps),
        m \in Reordered(a.manual_deployment_edps)}

BuildCalls == SelectSeq(calls, LAMBDA c : c.builder = "generate_build_ami")

BuildStepRan == InApros /\ pc \in {"built", "IndexError", "done"}

\* C28: the AMI-build job of an environment is configured from the first EDP
\* listed for that environment, continuous EDPs before manual ones: the
\* config entry, the secure material and the internal material handed to
\* generate_build_ami are those of that EDP; with the EDPs supplied in
\* another order the job is configured the same only if each environment
\* keeps its first EDP.
C28_BuildJobFromFirstEdp ==
    BuildStepRan =>
        /\ \A i \in 1..Len(BuildCalls) :
              LET ed == locals.env_order[i]
                  arguments == build_ami_arguments(args, ed)
              IN  /\ BuildCalls[i].edp = FirstEdpOf(args, ed)
                  /\ arguments.config = FirstEdpOf(args, ed)
                  /\ arguments.secure_material
                         = deployment_secure(FirstEdpOf(args, ed).deployment)
                  /\ arguments.internal_material
                         = deployment_internal(FirstEdpOf(args, ed).deployment)
        /\ \A a \in Reorderings(args) :
              \A i \in 1..Len(BuildCalls) :
                  build_ami_arguments(a, locals.env_order[i])
                          = build_ami_arguments(args, locals.env_order[i])
                      => FirstEdpOf(a, locals.env_order[i])
                             = FirstEdpOf(args, locals.env_order[i])

\* the build job was configured from the first of two different EDPs of an
\* environment, and supplying them in the other order configures it differently
C28_Witness ==
    /\ BuildStepRan /\ Len(BuildCalls) >= 1
    /\ ed_dict(args, locals.env_order[1])[1] # ed_dict(args, locals.env_order[1])[2]
    /\ BuildCalls[1].edp = ed_dict(args, locals.env_order[1])[1]
    /\ \E a \in Reorderings(args) :
          build_ami_arguments(a, locals.env_order[1]).config # BuildCalls[1].edp

\* every gated stage of the pipeline before is a gated stage of the pipeline after
GatesKept(before, after) ==
    \A i \in 1..Len(before.stages) :
        before.stages[i].manual
            => /\ HasName(after.stages, before.stages[i].name)
               /\ StageOf(after, before.stages[i].name).manual

\* C29: a stage-builder call of stages.py leaves every gated stage of the
\* pipeline gated, also when the builder is called on an existing gated stage
\* with manual_approval false; it gates its stage when manual_approval is true
\* (generate_rollback_asg_stage: always).
C29_ManualApprovalMonotone ==
    (pc = "stages" /\ locals.entry = "stage_builder") =>
        /\ GatesKept(last.prev, PipelineOf(group, "other"))
        /\ (last.call.manual_approval /\ last.call.builder # "generate_armed_stage")
               => \E i \in 1..Len(PipelineOf(group, "other").stages) :
                     /\ PipelineOf(group, "other").stages[i].manual
                     /\ \/ ~HasName(last.prev.stages, PipelineOf(group, "other").stages[i].name)
                        \/ PipelineOf(group, "other").stages[i].jobs
                               # StageOf(last.prev,
                                         PipelineOf(group, "other").stages[i].name).jobs

\* the same builder called again with manual_approval false on the stage it gated
C29_Witness ==
    /\ pc = "stages" /\ last.n = 2
    /\ last.call.builder = "generate_deploy_ami" /\ ~last.call.manual_approval
    /\ HasName(last.prev.stages, DEPLOY_AMI_STAGE_NAME)
    /\ StageOf(last.prev, DEPLOY_AMI_STAGE_NAME).manual
    /\ StageOf(PipelineOf(group, "other"), DEPLOY_AMI_STAGE_NAME).manual

====
